---- MODULE Spec2Model ----
(***************************************************************************)
(* Model of the stockalert monitoring core: the stock classifier and the   *)
(* alert generator of MonitorService (src/src/services/monitor.py), the    *)
(* velocity, stockout and reorder calculations of ForecasterService        *)
(* (src/src/services/forecaster.py), the provider reads of SquareService   *)
(* (src/src/services/square.py), the SMS and chat notifiers                *)
(* (src/src/services/twilio_notifier.py, slack_notifier.py) and the        *)
(* scheduled jobs and the scheduler's start and stop                       *)
(* (src/src/scheduler/jobs.py).                                            *)
(*                                                                         *)
(* Number representation.  Python floats are modelled as exact fixed-point *)
(* numbers: a stock percentage is an integer number of tenths of a percent *)
(* (205 is 20.5%), a velocity is an integer number of hundredths of a unit *)
(* per day (125 is 1.25 units/day), which is the grid round(x, 2) of       *)
(* calculate_velocity produces, a sold quantity is an integer number of    *)
(* tenths of a unit (30 is "3", 1 is "0.1").  Integer counts are plain     *)
(* integers.                                                               *)
(* An Optional[...] value is a sequence of length at most one: None is     *)
(* <<>> and a present value x is <<x>>.                                    *)
(***************************************************************************)
EXTENDS Integers, Sequences, FiniteSets, TLC

VARIABLES
    low_threshold,       \* MonitorService.low_threshold (percent)
    critical_threshold,  \* MonitorService.critical_threshold (percent)
    pc,                  \* "call": arguments bound, "return": the call returned
    op,                  \* the operation invoked
    args,                \* its arguments
    ret,                 \* its return value (None until it returns)
    demo_mode,           \* settings.demo_mode, read by every service
    to_numbers,          \* TwilioNotifier.to_numbers
    webhook_url,         \* SlackNotifier.webhook_url ("" when not configured)
    square,              \* the provider: per location, its data and the
                         \* outcome of each kind of read
    notified,            \* the batches handed to the notifiers by the job
    network,             \* the SMS sends and webhook posts made, in order
    checked,             \* the locations a job has called check_stock_levels
                         \* for, in call order
    passes,              \* per location, how far its monitoring pass is
                         \* and what it has returned (interleaved passes)
    scheduler            \* the BackgroundScheduler: running, and its jobs

\* what the services are configured with and what they have sent
env == <<demo_mode, to_numbers, webhook_url, square, notified, network, checked, passes, scheduler>>

vars == <<low_threshold, critical_threshold, pc, op, args, ret, demo_mode, to_numbers, webhook_url, square, notified, network, checked, passes, scheduler>>

\* scheduler = BackgroundScheduler(): not started, no job added
SchedulerIdle == [running |-> FALSE, jobs |-> <<>>]

\* no job run, no pass under way, the scheduler as constructed
JobsIdle ==
    /\ checked = <<>>
    /\ passes = <<>>
    /\ scheduler = SchedulerIdle

None == <<>>
Some(x) == <<x>>
IsNone(o) == o = <<>>
Val(o) == o[1]

Max(a, b) == IF a >= b THEN a ELSE b

(***************************************************************************)
(* Configuration: Settings defaults, and the values an environment may     *)
(* configure instead.  Settings validates neither range nor order.         *)
(***************************************************************************)
low_stock_threshold_percentage == 20
critical_stock_threshold_percentage == 5

MaxThreshold == 2

ThresholdValues ==
    (1..MaxThreshold)
        \cup {critical_stock_threshold_percentage, low_stock_threshold_percentage}

\* a whole percentage as a stock percentage (tenths of a percent)
Percent(p) == p * 10

\* a call of the monitor or the forecaster alone: the settings defaults,
\* no provider and nothing sent
ServicesIdle ==
    /\ demo_mode = TRUE
    /\ to_numbers = <<>>
    /\ webhook_url = ""
    /\ square = <<>>
    /\ notified = <<>>
    /\ network = <<>>
    /\ JobsIdle

\* MonitorService.__init__: both thresholds are read from the settings
MonitorInit(pairs) ==
    /\ ServicesIdle
    /\ \E p \in pairs :
          /\ critical_threshold = p[1]
          /\ low_threshold = p[2]

AllThresholdPairs == ThresholdValues \X ThresholdValues

(***************************************************************************)
(* MonitorService._determine_status                                        *)
(***************************************************************************)
determine_status_no_zero_check(stock_percentage, current_stock) ==
    IF stock_percentage <= Percent(critical_threshold) THEN "critical"
    ELSE IF stock_percentage <= Percent(low_threshold) THEN "low"
    ELSE "healthy"

determine_status_strict(stock_percentage, current_stock) ==
    IF current_stock = 0 THEN "out_of_stock"
    ELSE IF stock_percentage < Percent(critical_threshold) THEN "critical"
    ELSE IF stock_percentage < Percent(low_threshold) THEN "low"
    ELSE "healthy"

_determine_status(stock_percentage, current_stock) ==
    IF current_stock = 0 THEN "out_of_stock"
    ELSE IF stock_percentage <= Percent(critical_threshold) THEN "critical"
    ELSE IF stock_percentage <= Percent(low_threshold) THEN "low"
    ELSE "healthy"

MaxStock == 3

\* counts as int(quantity) gives them: an oversold item has a negative one
StockCounts == (-1)..MaxStock

\* stock percentages on and next to every threshold, and the extremes
StockPercentages ==
    {0, Percent(80), Percent(100)}
        \cup { Percent(t) + d : t \in ThresholdValues, d \in {-1, 0, 1} }

InitClassifier ==
    /\ MonitorInit(AllThresholdPairs)
    /\ pc = "call"
    /\ op = "_determine_status"
    /\ args \in [stock_percentage : StockPercentages, current_stock : StockCounts]
    /\ ret = None

DetermineStatus ==
    /\ pc = "call"
    /\ op = "_determine_status"
    /\ ret' = Some(_determine_status(args.stock_percentage, args.current_stock))
    /\ pc' = "return"
    /\ UNCHANGED <<low_threshold, critical_threshold, op, args>>
    /\ UNCHANGED env

NextClassifier == DetermineStatus

SpecClassifier == InitClassifier /\ [][NextClassifier]_vars

Returned(name) == pc = "return" /\ op = name

\* C1: _determine_status returns "out_of_stock" if and only if
\* current_stock = 0, whatever the percentage passed with it (also one that
\* is inconsistent with the count).
C1_OutOfStockIffZero ==
    Returned("_determine_status") =>
        (Val(ret) = "out_of_stock" <=> args.current_stock = 0)

\* a call with a zero count and a non-zero percentage has returned
C1_Witness ==
    /\ Returned("_determine_status")
    /\ args.current_stock = 0
    /\ args.stock_percentage > Percent(low_threshold)
    /\ Val(ret) = "out_of_stock"

\* C2: with current_stock > 0 and critical_threshold < low_threshold the
\* status is "critical" for percentage <= critical_threshold, "low" for
\* critical_threshold < percentage <= low_threshold, and "healthy" above
\* low_threshold; both boundaries belong to the lower tier.
C2_TiersByThreshold ==
    (/\ Returned("_determine_status")
     /\ args.current_stock > 0
     /\ critical_threshold < low_threshold) =>
        LET p == args.stock_percentage
            c == Percent(critical_threshold)
            l == Percent(low_threshold)
        IN  /\ (p <= c) => Val(ret) = "critical"
            /\ (c < p /\ p <= l) => Val(ret) = "low"
            /\ (p > l) => Val(ret) = "healthy"

\* a call exactly on the low threshold has returned "low"
C2_Witness ==
    /\ Returned("_determine_status")
    /\ args.current_stock > 0
    /\ critical_threshold < low_threshold
    /\ args.stock_percentage = Percent(low_threshold)
    /\ Val(ret) = "low"

(***************************************************************************)
(* ForecasterService.calculate_velocity                                    *)
(*                                                                         *)
(* A sales record is [mapping |-> TRUE, id, created_at, line_items]; a     *)
(* record that is not a mapping is [mapping |-> FALSE].  A line item is    *)
(* [catalog_object_id, quantity]; its quantity is the text the provider    *)
(* sends: Some(n) for text float() reads as n tenths of a unit, None for   *)
(* text float() rejects.  total_units is in tenths of a unit as well.      *)
(***************************************************************************)
RECURSIVE SumLineItemsAnyProduct(_, _, _)
SumLineItemsAnyProduct(product_id, line_items, total_units) ==
    IF line_items = <<>> THEN Some(total_units)
    ELSE LET line_item == Head(line_items)
         IN  IF IsNone(line_item.quantity) THEN None
             ELSE SumLineItemsAnyProduct(product_id, Tail(line_items),
                                         total_units + Val(line_item.quantity))

\* the loop body that skips a record that is no mapping and keeps the sum
SumOrderSkippingMalformed(product_id, order, total_units) ==
    IF ~order.mapping THEN Some(total_units)
    ELSE SumLineItemsAnyProduct(product_id,
             SelectSeq(order.line_items,
                 LAMBDA li : li.catalog_object_id = product_id
                                 /\ ~IsNone(li.quantity)),
             total_units)

RECURSIVE SumLineItems(_, _, _)
\* the inner loop: None when float() raised
SumLineItems(product_id, line_items, total_units) ==
    IF line_items = <<>> THEN Some(total_units)
    ELSE LET line_item == Head(line_items)
         IN  IF line_item.catalog_object_id = product_id
             THEN IF IsNone(line_item.quantity) THEN None
                  ELSE SumLineItems(product_id, Tail(line_items),
                                    total_units + Val(line_item.quantity))
             ELSE SumLineItems(product_id, Tail(line_items), total_units)

\* the loop body for one order: None when order.get or float() raised
SumOrder(product_id, order, total_units) ==
    IF ~order.mapping THEN None
    ELSE SumLineItems(product_id, order.line_items, total_units)

RECURSIVE SumOrders(_, _, _)
\* the outer loop: the orders in order, the total handed from each to the
\* next, left at the first one that raised (the first half of the orders,
\* then the second, so that a long history is walked at a small depth)
SumOrders(product_id, sales_history, total_units) ==
    IF sales_history = <<>> THEN Some(total_units)
    ELSE IF Len(sales_history) = 1
    THEN SumOrder(product_id, sales_history[1], total_units)
    ELSE LET half == Len(sales_history) \div 2
             t == SumOrders(product_id, SubSeq(sales_history, 1, half),
                            total_units)
         IN  IF IsNone(t) THEN None
             ELSE SumOrders(product_id,
                            SubSeq(sales_history, half + 1, Len(sales_history)),
                            Val(t))

\* round(total_units / days, 2) in hundredths, for days > 0: Python rounds
\* the quotient to the nearest hundredth, an exact tie to the even one
Round2(total_units, days) ==
    LET n == 10 * total_units
        q == n \div days
        r == n % days
    IN  IF 2 * r > days THEN q + 1
        ELSE IF 2 * r = days THEN (IF q % 2 = 0 THEN q ELSE q + 1)
        ELSE q

calculate_velocity(product_id, sales_history, days) ==
    LET total_units == SumOrders(product_id, sales_history, 0)
    IN  IF IsNone(total_units) THEN 0
        ELSE IF days > 0 THEN Round2(Val(total_units), days)
        ELSE 0

(***************************************************************************)
(* ForecasterService.calculate_days_until_stockout                         *)
(***************************************************************************)
\* int(x) of a quotient a / b with b > 0: truncation toward zero
TruncDiv(a, b) == IF a >= 0 THEN a \div b ELSE -((-a) \div b)

CeilDiv(a, b) == -((-a) \div b)

days_until_stockout_rounding_up(current_stock, velocity) ==
    IF velocity <= 0 THEN None
    ELSE Some(CeilDiv(100 * current_stock, velocity))

calculate_days_until_stockout(current_stock, velocity) ==
    IF velocity <= 0 THEN None
    ELSE Some(TruncDiv(100 * current_stock, velocity))

(***************************************************************************)
(* ForecasterService.calculate_reorder_quantity                            *)
(* Quantities inside the calculation are in hundredths of a unit.          *)
(***************************************************************************)
\* "Round up to nearest 5 or 10": ((q + 4) // 5) * 5 and ((q + 9) // 10) * 10
RoundForOrdering(reorder_quantity) ==
    IF reorder_quantity > 0
    THEN IF reorder_quantity <= 2000
         THEN ((reorder_quantity + 400) \div 500) * 500
         ELSE ((reorder_quantity + 900) \div 1000) * 1000
    ELSE reorder_quantity

\* the quantity before rounding: target minus stock, capped at max_stock
ClampedQuantity(velocity, current_stock, max_stock, lead_time_days, safety_stock_days) ==
    LET total_days == lead_time_days + safety_stock_days
        target_stock == velocity * total_days
        reorder_quantity == target_stock - 100 * current_stock
    IN  IF 100 * current_stock + reorder_quantity > 100 * max_stock
        THEN 100 * (max_stock - current_stock)
        ELSE reorder_quantity

reorder_quantity_unfloored(velocity, current_stock, max_stock, lead_time_days, safety_stock_days) ==
    IF velocity <= 0 THEN 0
    ELSE TruncDiv(RoundForOrdering(ClampedQuantity(velocity, current_stock,
                      max_stock, lead_time_days, safety_stock_days)), 100)

calculate_reorder_quantity(velocity, current_stock, max_stock, lead_time_days, safety_stock_days) ==
    IF velocity <= 0 THEN 0
    ELSE Max(0, TruncDiv(RoundForOrdering(ClampedQuantity(velocity,
                    current_stock, max_stock, lead_time_days,
                    safety_stock_days)), 100))

(***************************************************************************)
(* Calls of the stockout and reorder calculations.                         *)
(***************************************************************************)
default_lead_time_days == 7
default_safety_stock_days == 7
default_max_stock == 100

MaxUnits == 20
MaxCoverDays == 1

\* velocities in hundredths of a unit per day: negative, zero, fractional
\* (0.25, 0.33, 1.25, 3.25) and whole (1, 5, 10)
VelocityValues == {-100, 0, 25, 33, 100, 125, 325, 500, 1000}

StockLevels == (-1)..MaxUnits
MaxStockValues == (1..MaxUnits) \cup {default_max_stock}
LeadTimeValues == (0..MaxCoverDays) \cup {default_lead_time_days}
SafetyStockValues == (0..MaxCoverDays) \cup {default_safety_stock_days}

InitForecaster ==
    /\ MonitorInit({<<critical_stock_threshold_percentage,
                      low_stock_threshold_percentage>>})
    /\ pc = "call"
    /\ ret = None
    /\ \/ /\ op = "calculate_days_until_stockout"
          /\ args \in [current_stock : StockLevels, velocity : VelocityValues]
       \/ /\ op = "calculate_reorder_quantity"
          /\ args \in [velocity : VelocityValues,
                       current_stock : 0..MaxUnits,
                       max_stock : MaxStockValues,
                       lead_time_days : LeadTimeValues,
                       safety_stock_days : SafetyStockValues]

CalculateDaysUntilStockout ==
    /\ pc = "call"
    /\ op = "calculate_days_until_stockout"
    /\ ret' = calculate_days_until_stockout(args.current_stock, args.velocity)
    /\ pc' = "return"
    /\ UNCHANGED <<low_threshold, critical_threshold, op, args>>
    /\ UNCHANGED env

CalculateReorderQuantity ==
    /\ pc = "call"
    /\ op = "calculate_reorder_quantity"
    /\ ret' = Some(calculate_reorder_quantity(args.velocity, args.current_stock,
                       args.max_stock, args.lead_time_days,
                       args.safety_stock_days))
    /\ pc' = "return"
    /\ UNCHANGED <<low_threshold, critical_threshold, op, args>>
    /\ UNCHANGED env

NextForecaster == CalculateDaysUntilStockout \/ CalculateReorderQuantity

SpecForecaster == InitForecaster /\ [][NextForecaster]_vars

\* C6: for velocity > 0, max_stock > 0 and 0 <= current_stock <= max_stock,
\* current_stock plus the returned reorder quantity never exceeds max_stock.
C6_NeverExceedsMaxStock ==
    (/\ Returned("calculate_reorder_quantity")
     /\ args.velocity > 0
     /\ args.max_stock > 0
     /\ 0 <= args.current_stock
     /\ args.current_stock <= args.max_stock) =>
        args.current_stock + Val(ret) <= args.max_stock

\* the clamped quantity of C7, in hundredths:
\* min(velocity * (lead + safety) - current_stock, max_stock - current_stock)
C7_Clamped ==
    LET a == args.velocity * (args.lead_time_days + args.safety_stock_days)
                 - 100 * args.current_stock
        b == 100 * (args.max_stock - args.current_stock)
    IN  IF a <= b THEN a ELSE b

\* C7: when velocity > 0 and the clamped quantity q is positive, the result
\* is the smallest multiple of 5 that is >= q if q <= 20 and the smallest
\* multiple of 10 that is >= q if q > 20, for fractional q as for integer q.
C7_RoundsUpToMultiple ==
    (/\ Returned("calculate_reorder_quantity")
     /\ args.velocity > 0
     /\ C7_Clamped > 0) =>
        LET q == C7_Clamped
            step == IF q <= 2000 THEN 5 ELSE 10
            r == Val(ret)
        IN  /\ r % step = 0
            /\ 100 * r >= q
            /\ 100 * (r - step) < q

\* C8: calculate_reorder_quantity returns 0 whenever velocity <= 0, and a
\* value >= 0 for every input, also with current_stock above the target
\* stock or above max_stock.
C8_ZeroWithoutDemandNeverNegative ==
    Returned("calculate_reorder_quantity") =>
        /\ Val(ret) >= 0
        /\ (args.velocity <= 0 => Val(ret) = 0)

\* a call with demand, stock above max_stock and above the target returned 0
C8_Witness ==
    /\ Returned("calculate_reorder_quantity")
    /\ args.velocity > 0
    /\ args.current_stock > args.max_stock
    /\ 100 * args.current_stock - 100 >
           args.velocity * (args.lead_time_days + args.safety_stock_days)
    /\ Val(ret) = 0

\* C9: calculate_days_until_stockout returns None when velocity <= 0; for
\* velocity > 0 and current_stock >= 0 it returns the integer d with
\* d * velocity <= current_stock < (d + 1) * velocity.
C9_DaysIsFloorOfQuotient ==
    Returned("calculate_days_until_stockout") =>
        /\ (args.velocity <= 0 => IsNone(ret))
        /\ (args.velocity > 0 /\ args.current_stock >= 0) =>
              /\ ~IsNone(ret)
              /\ Val(ret) * args.velocity <= 100 * args.current_stock
              /\ 100 * args.current_stock < (Val(ret) + 1) * args.velocity

\* a call whose quotient is not whole has returned the truncated value
C9_Witness ==
    /\ Returned("calculate_days_until_stockout")
    /\ args.velocity = 325
    /\ args.current_stock = 20
    /\ ret = Some(6)

(***************************************************************************)
(* Calls of calculate_velocity.                                            *)
(***************************************************************************)
default_velocity_days == 30
anomaly_recent_days == 7

MaxOrders == 2
MaxLineItems == 1
MaxDays == 2

Products == {"P1", "P2"}

\* line items of the product asked about and of another product, with the
\* quantity text "3", "5" and text that is no number
LineItems ==
    [catalog_object_id : {"P1"}, quantity : {Some(30), Some(50), None}]
        \cup [catalog_object_id : {"P2"}, quantity : {Some(50), None}]

SeqsUpTo(S, n) == UNION { [1..k -> S] : k \in 0..n }

\* the sales records the provider may return: id and created_at are those
\* of the record's position in the history
OrdersAt(i) ==
    { [mapping |-> TRUE, id |-> i, created_at |-> i, line_items |-> l] :
          l \in SeqsUpTo(LineItems, MaxLineItems) }
        \cup {[mapping |-> FALSE]}

SalesHistories ==
    { h \in SeqsUpTo(UNION { OrdersAt(i) : i \in 1..MaxOrders }, MaxOrders) :
          \A i \in 1..Len(h) : h[i] \in OrdersAt(i) }

DaysValues ==
    {-1, 0} \cup (1..MaxDays) \cup {anomaly_recent_days, default_velocity_days}

InitVelocity ==
    /\ MonitorInit({<<critical_stock_threshold_percentage,
                      low_stock_threshold_percentage>>})
    /\ pc = "call"
    /\ ret = None
    /\ op = "calculate_velocity"
    /\ args \in [product_id : {"P1"}, sales_history : SalesHistories,
                 days : DaysValues]

CalculateVelocity ==
    /\ pc = "call"
    /\ op = "calculate_velocity"
    /\ ret' = Some(calculate_velocity(args.product_id, args.sales_history,
                                      args.days))
    /\ pc' = "return"
    /\ UNCHANGED <<low_threshold, critical_threshold, op, args>>
    /\ UNCHANGED env

NextVelocity == CalculateVelocity

SpecVelocity == InitVelocity /\ [][NextVelocity]_vars

\* every record is a mapping and every line item of the product has a
\* numeric quantity
WellFormedHistory(product_id, h) ==
    \A i \in 1..Len(h) :
        /\ h[i].mapping
        /\ \A j \in 1..Len(h[i].line_items) :
              h[i].line_items[j].catalog_object_id = product_id
                  => ~IsNone(h[i].line_items[j].quantity)

\* the positions <<record, line item>> that hold the product
MatchingPositions(product_id, h) ==
    UNION { { <<i, j>> : j \in { k \in 1..Len(h[i].line_items) :
                  h[i].line_items[k].catalog_object_id = product_id } } :
            i \in 1..Len(h) }

RECURSIVE QuantitySum(_, _)
QuantitySum(S, h) ==
    IF S = {} THEN 0
    ELSE LET p == CHOOSE x \in S : TRUE
         IN  Val(h[p[1]].line_items[p[2]].quantity) + QuantitySum(S \ {p}, h)

Abs(x) == IF x >= 0 THEN x ELSE -x

Orderings(n) == { f \in [1..n -> 1..n] : \A a, b \in 1..n : f[a] = f[b] => a = b }

Reordered(h, f) == [i \in 1..Len(h) |-> h[f[i]]]

Retimed(h, t) == [i \in 1..Len(h) |-> [h[i] EXCEPT !.created_at = t]]

WithoutOtherProducts(product_id, h) ==
    [i \in 1..Len(h) |->
        [h[i] EXCEPT !.line_items =
            SelectSeq(@, LAMBDA li : li.catalog_object_id = product_id)]]

\* C10: for days > 0, calculate_velocity is the sum of the quantities of
\* every line item of the product over all records, divided by days and
\* rounded to the nearest hundredth; record order, record timestamps and
\* the line items of other products do not change it.
C10_VelocityIsRoundedMeanOfMatching ==
    (/\ Returned("calculate_velocity")
     /\ args.days > 0
     /\ WellFormedHistory(args.product_id, args.sales_history)) =>
        LET h == args.sales_history
            pid == args.product_id
            total == QuantitySum(MatchingPositions(pid, h), h)
        IN  /\ 2 * Abs(Val(ret) * args.days - 10 * total) <= args.days
            /\ \A f \in Orderings(Len(h)) :
                  calculate_velocity(pid, Reordered(h, f), args.days) = Val(ret)
            /\ \A t \in {0, 99} :
                  calculate_velocity(pid, Retimed(h, t), args.days) = Val(ret)
            /\ calculate_velocity(pid, WithoutOtherProducts(pid, h), args.days)
                  = Val(ret)

\* quantities 5 and 3 in two records with days = 2 returned 4.0
C10_Witness ==
    /\ Returned("calculate_velocity")
    /\ args.days = 2
    /\ Len(args.sales_history) = 2
    /\ WellFormedHistory(args.product_id, args.sales_history)
    /\ QuantitySum(MatchingPositions(args.product_id, args.sales_history),
                   args.sales_history) = 80
    /\ ret = Some(400)

\* some record is no mapping, or some line item of any product has a
\* quantity that is no number
AnyMalformed(h) ==
    \E i \in 1..Len(h) :
        \/ ~h[i].mapping
        \/ \E j \in 1..Len(h[i].line_items) :
               IsNone(h[i].line_items[j].quantity)

\* C11 as stated: calculate_velocity returns 0.0 when days <= 0, and
\* returns 0.0 when any record or any line item is malformed.
C11_ZeroOnAnyMalformedItem ==
    Returned("calculate_velocity") =>
        /\ (args.days <= 0 => ret = Some(0))
        /\ (AnyMalformed(args.sales_history) => ret = Some(0))

\* C11 amended: calculate_velocity always returns a number; it returns 0.0
\* when days <= 0 whatever the history, and returns 0.0, discarding the
\* units summed so far, when some record is no mapping or some line item
\* of the requested product has a quantity that is no number.
C11_ZeroOnMalformedMatchingItem ==
    Returned("calculate_velocity") =>
        /\ Val(ret) \in Int
        /\ (args.days <= 0 => ret = Some(0))
        /\ (~WellFormedHistory(args.product_id, args.sales_history)
               => ret = Some(0))

\* a record of the product with quantity "3" was summed, then a record
\* that is no mapping was met, and the call with days > 0 returned 0.0
C11_Witness ==
    /\ Returned("calculate_velocity")
    /\ args.days > 0
    /\ Len(args.sales_history) = 2
    /\ args.sales_history[1].mapping
    /\ args.sales_history[1].line_items
           = <<[catalog_object_id |-> "P1", quantity |-> Some(30)]>>
    /\ ~args.sales_history[2].mapping
    /\ ret = Some(0)

(***************************************************************************)
(* MonitorService.generate_alerts                                          *)
(*                                                                         *)
(* A snapshot is a record of the keys generate_alerts uses (velocity is    *)
(* read into a local that is never used, and is left out).  The optional   *)
(* keys days_until_stockout and suggested_reorder_quantity are Optional:   *)
(* None stands for a missing key (and, for days_until_stockout, for the    *)
(* value None).  A message or suggested action is the record of its        *)
(* template and of the values formatted into it.                           *)
(***************************************************************************)
reorder_horizon_days == 7

AlertCreate(stock, alert_type, severity, message, suggested_action) ==
    [product_id |-> stock.product_id,
     location_id |-> stock.location_id,
     alert_type |-> alert_type,
     severity |-> severity,
     message |-> message,
     current_stock |-> stock.current_stock,
     suggested_action |-> suggested_action]

Message(template, stock, with_level, days) ==
    [template |-> template,
     product_name |-> stock.product_name,
     current_stock |-> IF with_level THEN Some(stock.current_stock) ELSE None,
     stock_percentage |->
         IF with_level THEN Some(stock.stock_percentage) ELSE None,
     days |-> days]

\* quantity is None where stock.get falls back to the template's own word
Action(template, quantity) == [template |-> template, quantity |-> quantity]

OutOfStockAlert(stock) ==
    AlertCreate(stock, "out_of_stock", "critical",
        Message("{name} is OUT OF STOCK", stock, FALSE, None),
        Action("URGENT: Reorder {qty|immediately} units immediately",
               stock.suggested_reorder_quantity))

CriticalStockAlert(stock) ==
    AlertCreate(stock, "critical_stock", "critical",
        Message("{name} is at CRITICAL stock level ({stock} units, {pct:.1f}%)",
                stock, TRUE, None),
        Action("Reorder {qty|ASAP} units immediately",
               stock.suggested_reorder_quantity))

\* a low_stock alert raised with the severity of the critical ones
low_stock_alert_as_critical(stock) ==
    AlertCreate(stock, "low_stock", "critical",
        Message("{name} is at LOW stock level ({stock} units, {pct:.1f}%)",
                stock, TRUE, None),
        Action("Consider reordering {qty|soon} units",
               stock.suggested_reorder_quantity))

LowStockAlert(stock) ==
    AlertCreate(stock, "low_stock", "warning",
        Message("{name} is at LOW stock level ({stock} units, {pct:.1f}%)",
                stock, TRUE, None),
        Action("Consider reordering {qty|soon} units",
               stock.suggested_reorder_quantity))

ReorderSuggestedAlert(stock) ==
    AlertCreate(stock, "reorder_suggested", "info",
        Message("{name} will run out in {days} days at current velocity",
                stock, FALSE, stock.days_until_stockout),
        Action("Reorder {qty} units to maintain optimal stock",
               stock.suggested_reorder_quantity))

\* stock.get("suggested_reorder_quantity", 0)
SuggestedOrZero(stock) ==
    IF IsNone(stock.suggested_reorder_quantity) THEN 0
    ELSE Val(stock.suggested_reorder_quantity)

\* the condition of the last elif: Python's truth value of
\* days_until_stockout is false for None and for 0
ReorderRule(stock) ==
    /\ ~IsNone(stock.days_until_stockout)
    /\ Val(stock.days_until_stockout) # 0
    /\ Val(stock.days_until_stockout) <= reorder_horizon_days
    /\ SuggestedOrZero(stock) > 0

alerts_for_snapshot_percentage_first(stock) ==
    IF stock.stock_percentage <= Percent(critical_threshold)
    THEN <<CriticalStockAlert(stock)>>
    ELSE IF stock.current_stock = 0 THEN <<OutOfStockAlert(stock)>>
    ELSE IF stock.stock_percentage <= Percent(low_threshold)
    THEN <<LowStockAlert(stock)>>
    ELSE IF ReorderRule(stock) THEN <<ReorderSuggestedAlert(stock)>>
    ELSE <<>>

alerts_for_snapshot_if_not_elif(stock) ==
    (IF stock.current_stock = 0 THEN <<OutOfStockAlert(stock)>> ELSE <<>>)
    \o (IF stock.stock_percentage <= Percent(critical_threshold)
        THEN <<CriticalStockAlert(stock)>>
        ELSE IF stock.stock_percentage <= Percent(low_threshold)
        THEN <<LowStockAlert(stock)>>
        ELSE IF ReorderRule(stock) THEN <<ReorderSuggestedAlert(stock)>>
        ELSE <<>>)

\* the low threshold tested before the critical one
alerts_for_snapshot_low_before_critical(stock) ==
    IF stock.current_stock = 0 THEN <<OutOfStockAlert(stock)>>
    ELSE IF stock.stock_percentage <= Percent(low_threshold)
    THEN <<LowStockAlert(stock)>>
    ELSE IF stock.stock_percentage <= Percent(critical_threshold)
    THEN <<CriticalStockAlert(stock)>>
    ELSE IF ReorderRule(stock) THEN <<ReorderSuggestedAlert(stock)>>
    ELSE <<>>

\* one iteration of the loop: the alerts appended for one snapshot
AlertsForSnapshot(stock) ==
    IF stock.current_stock = 0 THEN <<OutOfStockAlert(stock)>>
    ELSE IF stock.stock_percentage <= Percent(critical_threshold)
    THEN <<CriticalStockAlert(stock)>>
    ELSE IF stock.stock_percentage <= Percent(low_threshold)
    THEN <<LowStockAlert(stock)>>
    ELSE IF ReorderRule(stock) THEN <<ReorderSuggestedAlert(stock)>>
    ELSE <<>>

RECURSIVE generate_alerts(_)
generate_alerts(stock_levels) ==
    IF stock_levels = <<>> THEN <<>>
    ELSE AlertsForSnapshot(Head(stock_levels))
             \o generate_alerts(Tail(stock_levels))

(***************************************************************************)
(* Calls of generate_alerts.                                               *)
(***************************************************************************)
MaxSnapshots == 2

\* the products of a location, in the order the inventory lists them
ProductIds == <<"P1", "P2", "P3", "P4", "P5", "P6", "P7", "P8">>
ProductNames ==
    <<"Widget", "Gadget", "Gizmo", "Doohickey", "Sprocket", "Flange", "Gasket",
      "Grommet">>

\* the service as shipped, and a service with both thresholds configured
AlertThresholdPairs ==
    {<<critical_stock_threshold_percentage, low_stock_threshold_percentage>>,
     <<1, MaxThreshold>>}

\* on and just above each threshold of the service
AlertPercentages ==
    { Percent(t) + d : t \in {critical_threshold, low_threshold}, d \in {0, 1} }

\* the forecast keys: both missing (a hand-made snapshot), or both present
Forecasts ==
    {[days |-> None, quantity |-> None],
     [days |-> None, quantity |-> Some(0)],
     [days |-> Some(0), quantity |-> Some(5)],
     [days |-> Some(reorder_horizon_days), quantity |-> Some(5)],
     [days |-> Some(reorder_horizon_days), quantity |-> Some(0)],
     [days |-> Some(reorder_horizon_days + 1), quantity |-> Some(5)]}

SnapshotsAt(i) ==
    { [product_id |-> ProductIds[i],
       product_name |-> ProductNames[i],
       location_id |-> "L1",
       current_stock |-> c,
       max_stock |-> default_max_stock,
       stock_percentage |-> p,
       days_until_stockout |-> f.days,
       suggested_reorder_quantity |-> f.quantity] :
          c \in {0, MaxStock}, p \in AlertPercentages, f \in Forecasts }

RECURSIVE SnapshotLists(_)
\* the snapshot lists of length n
SnapshotLists(n) ==
    IF n = 0 THEN {<<>>}
    ELSE { Append(l, s) : l \in SnapshotLists(n - 1), s \in SnapshotsAt(n) }

InitAlerts ==
    /\ MonitorInit(AlertThresholdPairs)
    /\ pc = "call"
    /\ ret = None
    /\ op = "generate_alerts"
    /\ \E n \in 0..MaxSnapshots :
          args \in [stock_levels : SnapshotLists(n)]

\* a call that uses the snapshots up, as a consumed iterator would be
GenerateAlertsConsuming ==
    /\ pc \in {"call", "return"}
    /\ op = "generate_alerts"
    /\ ret' = ret \o <<generate_alerts(args.stock_levels)>>
    /\ pc' = IF pc = "call" THEN "return" ELSE "return_again"
    /\ args' = [args EXCEPT !.stock_levels = <<>>]
    /\ UNCHANGED <<low_threshold, critical_threshold, op>>
    /\ UNCHANGED env

\* a call of generate_alerts on the service, and a second call of it with
\* the same list of snapshots; ret holds the returned lists in call order
GenerateAlerts ==
    /\ pc \in {"call", "return"}
    /\ op = "generate_alerts"
    /\ ret' = ret \o <<generate_alerts(args.stock_levels)>>
    /\ pc' = IF pc = "call" THEN "return" ELSE "return_again"
    /\ UNCHANGED <<low_threshold, critical_threshold, op, args>>
    /\ UNCHANGED env

NextAlerts == GenerateAlerts

SpecAlerts == InitAlerts /\ [][NextAlerts]_vars

\* the alerts returned for the snapshot of one product
AlertsOf(product_id) ==
    SelectSeq(Val(ret), LAMBDA a : a.product_id = product_id)

ExactlyOne(stock, alert_type, severity) ==
    LET A == AlertsOf(stock.product_id)
    IN  /\ Len(A) = 1
        /\ A[1].alert_type = alert_type
        /\ A[1].severity = severity
        /\ A[1].location_id = stock.location_id
        /\ A[1].current_stock = stock.current_stock

\* C3: for every snapshot the stock-level rules apply in priority order:
\* current_stock = 0 gives exactly an out_of_stock alert of severity
\* critical whatever the percentage; otherwise a percentage <=
\* critical_threshold gives a critical_stock alert of severity critical;
\* otherwise a percentage <= low_threshold gives a low_stock alert of
\* severity warning; also when the optional forecast keys are missing.
C3_StockRulesInPriorityOrder ==
    Returned("generate_alerts") =>
        \A i \in 1..Len(args.stock_levels) :
            LET s == args.stock_levels[i]
                c == Percent(critical_threshold)
                l == Percent(low_threshold)
            IN  /\ s.current_stock = 0
                    => ExactlyOne(s, "out_of_stock", "critical")
                /\ (s.current_stock # 0 /\ s.stock_percentage <= c)
                    => ExactlyOne(s, "critical_stock", "critical")
                /\ (s.current_stock # 0 /\ s.stock_percentage > c
                        /\ s.stock_percentage <= l)
                    => ExactlyOne(s, "low_stock", "warning")

\* an empty snapshot with a healthy percentage and no forecast keys, after
\* a low one, got the out_of_stock alert
C3_Witness ==
    /\ Returned("generate_alerts")
    /\ Len(args.stock_levels) = 2
    /\ args.stock_levels[1].current_stock # 0
    /\ args.stock_levels[1].stock_percentage = Percent(low_threshold)
    /\ args.stock_levels[2].current_stock = 0
    /\ args.stock_levels[2].stock_percentage > Percent(low_threshold)
    /\ IsNone(args.stock_levels[2].days_until_stockout)
    /\ IsNone(args.stock_levels[2].suggested_reorder_quantity)
    /\ Len(Val(ret)) = 2
    /\ Val(ret)[1].alert_type = "low_stock"
    /\ Val(ret)[2].alert_type = "out_of_stock"

\* no stock-level rule fires for the snapshot
NoStockRule(s) ==
    /\ s.current_stock > 0
    /\ s.stock_percentage > Percent(low_threshold)

\* the reorder rule as the specification states it
ReorderDue(s) ==
    /\ ~IsNone(s.days_until_stockout)
    /\ Val(s.days_until_stockout) <= reorder_horizon_days
    /\ ~IsNone(s.suggested_reorder_quantity)
    /\ Val(s.suggested_reorder_quantity) > 0

\* C4: a snapshot on which no stock-level rule fires gets a
\* reorder_suggested alert of severity info whenever days_until_stockout is
\* defined and <= 7 and suggested_reorder_quantity > 0, also when
\* days_until_stockout is 0.
C4_ReorderSuggestedWhenDue ==
    Returned("generate_alerts") =>
        \A i \in 1..Len(args.stock_levels) :
            LET s == args.stock_levels[i]
            IN  (NoStockRule(s) /\ ReorderDue(s))
                    => ExactlyOne(s, "reorder_suggested", "info")

\* the position of a product in the snapshot list
PositionOf(product_id) ==
    CHOOSE i \in 1..Len(args.stock_levels) :
        args.stock_levels[i].product_id = product_id

\* C5: generate_alerts emits at most one alert per snapshot, in snapshot
\* order (so never more alerts than snapshots), and none for a snapshot
\* that matches no rule: current_stock > 0, percentage > low_threshold and
\* no reorder due.
C5_AtMostOneAlertPerSnapshot ==
    Returned("generate_alerts") =>
        LET alerts == Val(ret)
        IN  /\ Len(alerts) <= Len(args.stock_levels)
            /\ \A k \in 1..Len(alerts) :
                  \E i \in 1..Len(args.stock_levels) :
                      args.stock_levels[i].product_id = alerts[k].product_id
            /\ \A k \in 1..(Len(alerts) - 1) :
                  PositionOf(alerts[k].product_id)
                      < PositionOf(alerts[k + 1].product_id)
            /\ \A i \in 1..Len(args.stock_levels) :
                  LET s == args.stock_levels[i]
                  IN  (NoStockRule(s) /\ ~ReorderDue(s))
                          => Len(AlertsOf(s.product_id)) = 0

\* of two snapshots the first matches no rule and the second does: one
\* alert, for the second
C5_Witness ==
    /\ Returned("generate_alerts")
    /\ Len(args.stock_levels) = 2
    /\ NoStockRule(args.stock_levels[1])
    /\ ~ReorderDue(args.stock_levels[1])
    /\ ReorderDue(args.stock_levels[2])
    /\ Len(Val(ret)) = 1
    /\ Val(ret)[1].product_id = args.stock_levels[2].product_id
    /\ Val(ret)[1].alert_type = "reorder_suggested"

anomaly_threshold_percentage == 50

\* n / d rounded to the nearest integer, an exact tie to the even one
RoundDiv(n, d) ==
    LET nn == IF d < 0 THEN -n ELSE n
        dd == IF d < 0 THEN -d ELSE d
        q == nn \div dd
        r == nn % dd
    IN  IF 2 * r > dd THEN q + 1
        ELSE IF 2 * r = dd THEN (IF q % 2 = 0 THEN q ELSE q + 1)
        ELSE q

\* the decision with a zero baseline read as an unbounded change
velocity_anomaly_zero_baseline_flagged(product_id, recent_velocity, baseline_velocity) ==
    IF baseline_velocity = 0 /\ recent_velocity = 0 THEN None
    ELSE Some([product_id |-> product_id,
               recent_velocity |-> recent_velocity,
               baseline_velocity |-> baseline_velocity,
               change_percentage |-> 0,
               direction |-> IF recent_velocity > baseline_velocity
                             THEN "increase" ELSE "decrease"])

\* the decision with the change taken relative to the recent velocity
velocity_anomaly_swapped(product_id, recent_velocity, baseline_velocity) ==
    IF baseline_velocity = 0 \/ recent_velocity = 0 THEN None
    ELSE LET change == baseline_velocity - recent_velocity
         IN  IF 100 * Abs(change)
                    > anomaly_threshold_percentage * Abs(recent_velocity)
             THEN Some([product_id |-> product_id,
                        recent_velocity |-> recent_velocity,
                        baseline_velocity |-> baseline_velocity,
                        change_percentage |->
                            RoundDiv(1000 * change, recent_velocity),
                        direction |-> IF change * recent_velocity > 0
                                      THEN "increase" ELSE "decrease"])
             ELSE None

\* lines 137-155: the zero-baseline guard, the threshold test and the record
velocity_anomaly(product_id, recent_velocity, baseline_velocity) ==
    IF baseline_velocity = 0 THEN None
    ELSE LET change == recent_velocity - baseline_velocity
         IN  IF 100 * Abs(change)
                    > anomaly_threshold_percentage * Abs(baseline_velocity)
             THEN Some([product_id |-> product_id,
                        recent_velocity |-> recent_velocity,
                        baseline_velocity |-> baseline_velocity,
                        change_percentage |->
                            RoundDiv(1000 * change, baseline_velocity),
                        direction |-> IF change * baseline_velocity > 0
                                      THEN "increase" ELSE "decrease"])
             ELSE None

recent_velocity_of(product_id, sales_history) ==
    calculate_velocity(product_id, sales_history, anomaly_recent_days)

baseline_velocity_of(product_id, sales_history) ==
    calculate_velocity(product_id, sales_history, default_velocity_days)

\* both velocities taken over the 30-day window
detect_velocity_anomalies_same_window(product_id, sales_history) ==
    velocity_anomaly(product_id,
                     baseline_velocity_of(product_id, sales_history),
                     baseline_velocity_of(product_id, sales_history))

detect_velocity_anomalies(product_id, sales_history) ==
    velocity_anomaly(product_id,
                     recent_velocity_of(product_id, sales_history),
                     baseline_velocity_of(product_id, sales_history))

(***************************************************************************)
(* Calls of detect_velocity_anomalies.                                     *)
(***************************************************************************)
\* one record of the product with the quantity text "0.1", "0.2", "-0.1"
\* or "-3"
FractionalHistories ==
    { <<[mapping |-> TRUE, id |-> 1, created_at |-> 1,
         line_items |-> <<[catalog_object_id |-> "P1", quantity |-> Some(q)]>>]>> :
          q \in {1, 2, -1, -30} }

AnomalyHistories == SalesHistories \cup FractionalHistories

InitAnomaly ==
    /\ MonitorInit({<<critical_stock_threshold_percentage,
                      low_stock_threshold_percentage>>})
    /\ pc = "call"
    /\ ret = None
    /\ op = "detect_velocity_anomalies"
    /\ args \in [product_id : {"P1"}, sales_history : AnomalyHistories]

DetectVelocityAnomalies ==
    /\ pc = "call"
    /\ op = "detect_velocity_anomalies"
    /\ ret' = Some(detect_velocity_anomalies(args.product_id,
                                             args.sales_history))
    /\ pc' = "return"
    /\ UNCHANGED <<low_threshold, critical_threshold, op, args>>
    /\ UNCHANGED env

NextAnomaly == DetectVelocityAnomalies

SpecAnomaly == InitAnomaly /\ [][NextAnomaly]_vars

\* C12: detect_velocity_anomalies returns None whenever the 30-day baseline
\* velocity is 0, whatever the 7-day velocity is.
C12_NoneOnZeroBaseline ==
    (/\ Returned("detect_velocity_anomalies")
     /\ baseline_velocity_of(args.product_id, args.sales_history) = 0)
        => Val(ret) = None

\* 0.1 units sold: the baseline rounds to 0.0, the recent velocity is 0.01,
\* and the call returned None
C12_Witness ==
    /\ Returned("detect_velocity_anomalies")
    /\ baseline_velocity_of(args.product_id, args.sales_history) = 0
    /\ recent_velocity_of(args.product_id, args.sales_history) = 1
    /\ Val(ret) = None

sms_summary_limit == 5
chat_critical_limit == 3
chat_warning_limit == 3
chat_info_limit == 2

Min(a, b) == IF a <= b THEN a ELSE b

\* Alert(id=..., **alert.model_dump(), ...)
Alert(id, alert) == [id |-> id] @@ alert

IsCritical(alert) == alert.severity = "critical"

Send(channel, to, body, ok) ==
    [channel |-> channel, to |-> to, body |-> body, ok |-> ok]

\* the messages of the first limit alerts
MessageLines(alerts, limit) ==
    [i \in 1..Min(limit, Len(alerts)) |-> alerts[i].message]

\* the "...and k more" line counting every alert, listed or not
more_line_counting_listed(alerts, limit) ==
    IF Len(alerts) > limit THEN Some(Len(alerts)) ELSE None

\* the "...and k more" line, present when more than limit alerts
MoreLine(alerts, limit) ==
    IF Len(alerts) > limit THEN Some(Len(alerts) - limit) ELSE None

_format_alert_message(alert) ==
    [template |-> "{emoji} StockAlert - {TYPE}",
     emoji |-> alert.severity,
     alert_type |-> alert.alert_type,
     message |-> alert.message,
     action |-> alert.suggested_action]

_format_summary_message(alerts) ==
    [template |-> "StockAlert Summary - {n} items need attention",
     count |-> Len(alerts),
     lines |-> MessageLines(alerts, sms_summary_limit),
     more |-> MoreLine(alerts, sms_summary_limit)]

RECURSIVE SendToNumbersStoppingAtFailure(_, _, _, _)
\* the loop leaving at the first failed send
SendToNumbersStoppingAtFailure(message_body, numbers, failing, log) ==
    IF numbers = <<>> THEN [network |-> log, success |-> TRUE]
    ELSE LET ok == (Len(log) + 1) \notin failing
             sent == Append(log, Send("sms", Head(numbers), message_body, ok))
         IN  IF ok
             THEN SendToNumbersStoppingAtFailure(message_body, Tail(numbers),
                                                 failing, sent)
             ELSE [network |-> sent, success |-> FALSE]

RECURSIVE SendToNumbers(_, _, _, _)
\* for to_number in self.to_numbers: one create per number, a failure
\* clears success and the loop goes on
SendToNumbers(message_body, numbers, failing, log) ==
    IF numbers = <<>> THEN [network |-> log, success |-> TRUE]
    ELSE LET ok == (Len(log) + 1) \notin failing
             sent == Append(log, Send("sms", Head(numbers), message_body, ok))
             rest == SendToNumbers(message_body, Tail(numbers), failing, sent)
         IN  [network |-> rest.network, success |-> ok /\ rest.success]

_send_message(message_body, failing, log) ==
    IF to_numbers = <<>> THEN [network |-> log, success |-> FALSE]
    ELSE SendToNumbers(message_body, to_numbers, failing, log)

TwilioNotifier_send_alert(alert, failing, log) ==
    IF demo_mode THEN [network |-> log, success |-> TRUE]
    ELSE IF to_numbers = <<>> THEN [network |-> log, success |-> FALSE]
    ELSE SendToNumbers(_format_alert_message(alert), to_numbers, failing, log)

RECURSIVE SendCriticalAlerts(_, _, _)
\* for alert in critical_alerts: counts is [network, success, failed]
SendCriticalAlerts(critical_alerts, failing, counts) ==
    IF critical_alerts = <<>> THEN counts
    ELSE LET s == TwilioNotifier_send_alert(Head(critical_alerts), failing,
                                            counts.network)
         IN  SendCriticalAlerts(Tail(critical_alerts), failing,
                 [network |-> s.network,
                  success |-> counts.success + (IF s.success THEN 1 ELSE 0),
                  failed |-> counts.failed + (IF s.success THEN 0 ELSE 1)])

\* the batch sent with every alert as a message of its own
twilio_send_batch_alerts_unpartitioned(alerts, failing, log) ==
    IF alerts = <<>> THEN [network |-> log, success |-> 0, failed |-> 0]
    ELSE IF demo_mode
    THEN [network |-> log, success |-> Len(alerts), failed |-> 0]
    ELSE SendCriticalAlerts(alerts, failing,
                            [network |-> log, success |-> 0, failed |-> 0])

\* demo mode sending like any other mode
twilio_send_batch_alerts_demo_sends(alerts, failing, log) ==
    IF alerts = <<>> THEN [network |-> log, success |-> 0, failed |-> 0]
    ELSE LET m == IF to_numbers = <<>>
                  THEN [network |-> log, success |-> TRUE]
                  ELSE SendToNumbers(_format_summary_message(alerts),
                                     to_numbers, failing, log)
         IN  [network |-> m.network,
              success |-> IF m.success THEN Len(alerts) ELSE 0,
              failed |-> IF m.success THEN 0 ELSE Len(alerts)]

\* the summary counted as one message, not as the alerts it stands for
twilio_send_batch_alerts_summary_counted_once(alerts, failing, log) ==
    IF alerts = <<>> THEN [network |-> log, success |-> 0, failed |-> 0]
    ELSE IF demo_mode
    THEN [network |-> log, success |-> Len(alerts), failed |-> 0]
    ELSE LET critical_alerts == SelectSeq(alerts, IsCritical)
             other_alerts == SelectSeq(alerts, LAMBDA a : ~IsCritical(a))
             c == SendCriticalAlerts(critical_alerts, failing,
                      [network |-> log, success |-> 0, failed |-> 0])
         IN  IF other_alerts = <<>> THEN c
             ELSE LET m == _send_message(
                               _format_summary_message(other_alerts),
                               failing, c.network)
                  IN  [network |-> m.network,
                       success |-> c.success + (IF m.success THEN 1 ELSE 0),
                       failed |-> c.failed + (IF m.success THEN 0 ELSE 1)]

TwilioNotifier_send_batch_alerts(alerts, failing, log) ==
    IF alerts = <<>> THEN [network |-> log, success |-> 0, failed |-> 0]
    ELSE IF demo_mode
    THEN [network |-> log, success |-> Len(alerts), failed |-> 0]
    ELSE LET critical_alerts == SelectSeq(alerts, IsCritical)
             other_alerts == SelectSeq(alerts, LAMBDA a : ~IsCritical(a))
             c == SendCriticalAlerts(critical_alerts, failing,
                      [network |-> log, success |-> 0, failed |-> 0])
         IN  IF other_alerts = <<>> THEN c
             ELSE LET m == _send_message(
                               _format_summary_message(other_alerts),
                               failing, c.network)
                  IN  [network |-> m.network,
                       success |-> c.success
                           + (IF m.success THEN Len(other_alerts) ELSE 0),
                       failed |-> c.failed
                           + (IF m.success THEN 0 ELSE Len(other_alerts))]

\* requests.post(self.webhook_url, json=payload) and raise_for_status()
Post(payload, failing, log) ==
    LET ok == webhook_url # "" /\ (Len(log) + 1) \notin failing
    IN  [network |-> Append(log, Send("chat", webhook_url, payload, ok)),
         success |-> ok]

_format_alert_payload(alert) ==
    [template |-> "StockAlert - {Type}",
     color |-> alert.severity,
     alert_type |-> alert.alert_type,
     message |-> alert.message,
     current_stock |-> alert.current_stock,
     severity |-> alert.severity,
     action |-> alert.suggested_action]

\* one severity group of the batch text: None when the group is empty
SeverityGroup(alerts, limit) ==
    IF alerts = <<>> THEN None
    ELSE Some([count |-> Len(alerts),
               lines |-> MessageLines(alerts, limit),
               more |-> MoreLine(alerts, limit)])

_format_batch_payload(alerts) ==
    [template |-> "Stock Alert Summary - {n} items need attention",
     count |-> Len(alerts),
     critical |-> SeverityGroup(SelectSeq(alerts, IsCritical),
                                chat_critical_limit),
     warnings |-> SeverityGroup(
                      SelectSeq(alerts, LAMBDA a : a.severity = "warning"),
                      chat_warning_limit),
     info |-> SeverityGroup(SelectSeq(alerts, LAMBDA a : a.severity = "info"),
                            chat_info_limit)]

_format_summary_payload(summary_data) ==
    [template |-> "Daily Inventory Summary", data |-> summary_data]

SlackNotifier_send_alert(alert, failing, log) ==
    IF demo_mode THEN [network |-> log, success |-> TRUE]
    ELSE IF webhook_url = "" THEN [network |-> log, success |-> FALSE]
    ELSE Post(_format_alert_payload(alert), failing, log)

SlackNotifier_send_batch_alerts(alerts, failing, log) ==
    IF alerts = <<>> THEN [network |-> log, success |-> 0, failed |-> 0]
    ELSE IF demo_mode
    THEN [network |-> log, success |-> Len(alerts), failed |-> 0]
    ELSE LET p == Post(_format_batch_payload(alerts), failing, log)
         IN  [network |-> p.network,
              success |-> IF p.success THEN Len(alerts) ELSE 0,
              failed |-> IF p.success THEN 0 ELSE Len(alerts)]

SlackNotifier_send_daily_summary(summary_data, failing, log) ==
    IF demo_mode THEN [network |-> log, success |-> TRUE]
    ELSE Post(_format_summary_payload(summary_data), failing, log)

(***************************************************************************)
(* Calls of the notifiers.                                                 *)
(***************************************************************************)
MaxAlerts == 3

\* no recipient, one, and two (TWILIO_TO_NUMBERS split at the commas)
RecipientLists == {<<>>, <<"+15550001">>, <<"+15550001", "+15550002">>}

WebhookUrls == {"", "https://hooks.example/T000"}

\* the snapshot of the i-th product with the given stock and forecast
StockOf(i, current_stock, days, quantity) ==
    [product_id |-> ProductIds[i],
     product_name |-> ProductNames[i],
     location_id |-> "L1",
     current_stock |-> current_stock,
     max_stock |-> default_max_stock,
     stock_percentage |-> Percent(current_stock),
     days_until_stockout |-> days,
     suggested_reorder_quantity |-> quantity]

\* the i-th alert of a batch: one critical, one warning or one info alert
\* as generate_alerts builds them, with an id of its own (the job's uuid4)
AlertsAt(i) ==
    { Alert(i, a) :
          a \in {OutOfStockAlert(StockOf(i, 0, None, Some(20))),
                 LowStockAlert(StockOf(i, 15, None, Some(0))),
                 ReorderSuggestedAlert(StockOf(i, 80, Some(4), Some(20)))} }

RECURSIVE AlertLists(_)
\* the batches of n alerts
AlertLists(n) ==
    IF n = 0 THEN {<<>>}
    ELSE { Append(l, a) : l \in AlertLists(n - 1), a \in AlertsAt(n) }

AlertBatches == UNION { AlertLists(n) : n \in 0..MaxAlerts }

SummaryData ==
    {[total_products |-> 5, healthy |-> 2, low_stock |-> 1, critical |-> 2,
      alerts_generated |-> 3, reorders_suggested |-> 1]}

SmsOps == {"TwilioNotifier.send_alert", "TwilioNotifier.send_batch_alerts"}

ChatOps ==
    {"SlackNotifier.send_alert", "SlackNotifier.send_batch_alerts",
     "SlackNotifier.send_daily_summary"}

InitNotifier ==
    /\ critical_threshold = critical_stock_threshold_percentage
    /\ low_threshold = low_stock_threshold_percentage
    /\ demo_mode \in BOOLEAN
    /\ op \in SmsOps \cup ChatOps
    /\ to_numbers \in (IF op \in SmsOps THEN RecipientLists ELSE {<<>>})
    /\ webhook_url \in (IF op \in ChatOps THEN WebhookUrls ELSE {""})
    /\ args \in (IF op \in {"TwilioNotifier.send_alert",
                            "SlackNotifier.send_alert"}
                 THEN [alert : AlertsAt(1)]
                 ELSE IF op = "SlackNotifier.send_daily_summary"
                 THEN [summary_data : SummaryData]
                 ELSE [alerts : AlertBatches])
    /\ square = <<>>
    /\ notified = <<>>
    /\ network = <<>>
    /\ JobsIdle
    /\ pc = "call"
    /\ ret = None

\* the sends of one call whose failure the environment may choose
Failures(sends) == SUBSET (1..sends)

NotifierFrame ==
    UNCHANGED <<low_threshold, critical_threshold, op, args, demo_mode, to_numbers, webhook_url, square, notified, checked, passes, scheduler>>

TwilioSendAlert ==
    /\ pc = "call"
    /\ op = "TwilioNotifier.send_alert"
    /\ \E failing \in Failures(Len(to_numbers)) :
          LET r == TwilioNotifier_send_alert(args.alert, failing, network)
          IN  /\ network' = r.network
              /\ ret' = Some(r.success)
    /\ pc' = "return"
    /\ NotifierFrame

TwilioSendBatchAlerts ==
    /\ pc = "call"
    /\ op = "TwilioNotifier.send_batch_alerts"
    /\ \E failing \in Failures(Len(args.alerts) * Len(to_numbers)) :
          LET r == TwilioNotifier_send_batch_alerts(args.alerts, failing,
                                                    network)
          IN  /\ network' = r.network
              /\ ret' = Some([success |-> r.success, failed |-> r.failed])
    /\ pc' = "return"
    /\ NotifierFrame

SlackSendAlert ==
    /\ pc = "call"
    /\ op = "SlackNotifier.send_alert"
    /\ \E failing \in Failures(1) :
          LET r == SlackNotifier_send_alert(args.alert, failing, network)
          IN  /\ network' = r.network
              /\ ret' = Some(r.success)
    /\ pc' = "return"
    /\ NotifierFrame

SlackSendBatchAlerts ==
    /\ pc = "call"
    /\ op = "SlackNotifier.send_batch_alerts"
    /\ \E failing \in Failures(1) :
          LET r == SlackNotifier_send_batch_alerts(args.alerts, failing,
                                                   network)
          IN  /\ network' = r.network
              /\ ret' = Some([success |-> r.success, failed |-> r.failed])
    /\ pc' = "return"
    /\ NotifierFrame

SlackSendDailySummary ==
    /\ pc = "call"
    /\ op = "SlackNotifier.send_daily_summary"
    /\ \E failing \in Failures(1) :
          LET r == SlackNotifier_send_daily_summary(args.summary_data,
                                                    failing, network)
          IN  /\ network' = r.network
              /\ ret' = Some(r.success)
    /\ pc' = "return"
    /\ NotifierFrame

NextNotifier ==
    \/ TwilioSendAlert
    \/ TwilioSendBatchAlerts
    \/ SlackSendAlert
    \/ SlackSendBatchAlerts
    \/ SlackSendDailySummary

SpecNotifier == InitNotifier /\ [][NextNotifier]_vars

\* the bodies sent to one recipient, in the order sent
BodiesTo(to) ==
    LET sent == SelectSeq(network, LAMBDA n : n.to = to)
    IN  [i \in 1..Len(sent) |-> sent[i].body]

Range(f) == { f[i] : i \in DOMAIN f }

\* the positions in bodies of the message that alert has for itself
OwnMessages(bodies, alert) ==
    { i \in 1..Len(bodies) :
          /\ "alert_type" \in DOMAIN bodies[i]
          /\ bodies[i].message = alert.message
          /\ bodies[i].alert_type = alert.alert_type }

\* the positions in bodies of the summary messages
Summaries(bodies) ==
    { i \in 1..Len(bodies) : "lines" \in DOMAIN bodies[i] }

InSummary(bodies, alert) ==
    \E i \in Summaries(bodies) : alert.message \in Range(bodies[i].lines)

\* C15: in non-demo mode, of the batch given to the SMS send_batch_alerts
\* every recipient is sent one message of its own for each critical alert
\* and, when the batch has other alerts, exactly one summary message that
\* counts and lists them; a critical alert is not in the summary, another
\* alert has no message of its own, nothing else is sent, and the returned
\* counts add up to the size of the batch.
C15_CriticalAloneOthersInOneSummary ==
    (/\ Returned("TwilioNotifier.send_batch_alerts")
     /\ ~demo_mode) =>
        LET alerts == args.alerts
            others == { k \in 1..Len(alerts) : ~IsCritical(alerts[k]) }
        IN  /\ \A to \in Range(to_numbers) :
                  LET b == BodiesTo(to)
                  IN  /\ \A k \in 1..Len(alerts) :
                            IF IsCritical(alerts[k])
                            THEN /\ Cardinality(OwnMessages(b, alerts[k])) = 1
                                 /\ ~InSummary(b, alerts[k])
                            ELSE /\ OwnMessages(b, alerts[k]) = {}
                                 /\ InSummary(b, alerts[k])
                      /\ Cardinality(Summaries(b))
                            = (IF others = {} THEN 0 ELSE 1)
                      /\ \A i \in Summaries(b) :
                            b[i].count = Cardinality(others)
                      /\ Len(b) = Len(alerts) - Cardinality(others)
                                      + Cardinality(Summaries(b))
            /\ Val(ret).success + Val(ret).failed = Len(alerts)

\* a batch of one critical alert and two others went to two recipients as
\* two messages each
C15_Witness ==
    /\ Returned("TwilioNotifier.send_batch_alerts")
    /\ ~demo_mode
    /\ Len(to_numbers) = 2
    /\ Len(args.alerts) = 3
    /\ IsCritical(args.alerts[2])
    /\ ~IsCritical(args.alerts[1])
    /\ ~IsCritical(args.alerts[3])
    /\ Len(network) = 4
    /\ Val(ret) = [success |-> 3, failed |-> 0]

\* the alerts of the batch whose delivery failed: a critical alert when
\* there is no recipient or a send of its message failed, another alert
\* when there is no recipient or a send of the summary failed
FailedAlerts(alerts) ==
    { k \in 1..Len(alerts) :
          \/ to_numbers = <<>>
          \/ \E i \in 1..Len(network) :
                /\ ~network[i].ok
                /\ IF IsCritical(alerts[k])
                   THEN network[i].body = _format_alert_message(alerts[k])
                   ELSE "lines" \in DOMAIN network[i].body }

\* C19: in non-demo mode a failed send is counted in the returned failed
\* count, no message is sent twice to the same recipient, and every message
\* of the batch is still attempted for every recipient whatever failed
\* before it; the call returns its counts (it does not raise).  For the
\* chat batch there is one post, and its failure fails the whole batch.
C19_FailuresCountedNotRetriedNotFatal ==
    /\ (Returned("TwilioNotifier.send_batch_alerts") /\ ~demo_mode) =>
          LET alerts == args.alerts
              messages == Cardinality({ k \in 1..Len(alerts) :
                                            IsCritical(alerts[k]) })
                  + (IF \E k \in 1..Len(alerts) : ~IsCritical(alerts[k])
                     THEN 1 ELSE 0)
          IN  /\ \A i, j \in 1..Len(network) :
                    (network[i].to = network[j].to
                         /\ network[i].body = network[j].body) => i = j
              /\ \A to \in Range(to_numbers) : Len(BodiesTo(to)) = messages
              /\ Len(network) = messages * Len(to_numbers)
              /\ Val(ret).failed = Cardinality(FailedAlerts(alerts))
              /\ Val(ret).success = Len(alerts) - Val(ret).failed
    /\ (Returned("SlackNotifier.send_batch_alerts") /\ ~demo_mode
            /\ args.alerts # <<>>) =>
          /\ Len(network) = 1
          /\ Val(ret) = (IF network[1].ok
                         THEN [success |-> Len(args.alerts), failed |-> 0]
                         ELSE [success |-> 0, failed |-> Len(args.alerts)])

\* the first send of a batch of two critical alerts to two recipients
\* failed; the three sends after it were made and succeeded, and one alert
\* is counted as failed
C19_Witness ==
    /\ Returned("TwilioNotifier.send_batch_alerts")
    /\ ~demo_mode
    /\ Len(to_numbers) = 2
    /\ Len(args.alerts) = 2
    /\ \A k \in 1..2 : IsCritical(args.alerts[k])
    /\ Len(network) = 4
    /\ ~network[1].ok
    /\ \A i \in 2..4 : network[i].ok
    /\ Val(ret) = [success |-> 1, failed |-> 1]

\* C20: in demo mode every notifier call makes no send and no post and
\* reports success: send_alert and send_daily_summary return True, and
\* send_batch_alerts on n alerts returns success = n and failed = 0.
C20_DemoModeSendsNothingReportsSuccess ==
    (pc = "return" /\ op \in SmsOps \cup ChatOps /\ demo_mode) =>
        /\ network = <<>>
        /\ op \in {"TwilioNotifier.send_alert", "SlackNotifier.send_alert",
                   "SlackNotifier.send_daily_summary"} => Val(ret) = TRUE
        /\ op \in {"TwilioNotifier.send_batch_alerts",
                   "SlackNotifier.send_batch_alerts"} =>
              Val(ret) = [success |-> Len(args.alerts), failed |-> 0]

\* the SMS notifier in demo mode, with recipients configured, was given
\* three alerts, sent nothing and reported three successes
C20_Witness ==
    /\ Returned("TwilioNotifier.send_batch_alerts")
    /\ demo_mode
    /\ to_numbers # <<>>
    /\ Len(args.alerts) = 3
    /\ network = <<>>
    /\ Val(ret) = [success |-> 3, failed |-> 0]

(***************************************************************************)
(* SquareService: the provider reads                                       *)
(*                                                                         *)
(* square[location_id] is what the provider holds for a location (counts,  *)
(* catalog, orders, already in the parsed shape) and whether each of the   *)
(* three API calls succeeds (inventory_ok, catalog_ok, sales_ok); a call   *)
(* that does not succeed returned an error result or raised, and the       *)
(* service returns [] for it either way.  A count's quantity is in whole   *)
(* units.  In demo mode the service returns its built-in data.             *)
(***************************************************************************)
MockItem(n) ==
    <<"item_001", "item_002", "item_003", "item_004", "item_005">>[n]

MockName(n) ==
    <<"Premium Coffee Beans", "Espresso Machine Filters", "Paper Cups (16oz)", "Vanilla Syrup", "Oat Milk">>[n]

\* the quantities 45.0, 8.0, 120.0, 2.0 and 0.0
MockQuantity(n) == <<45, 8, 120, 2, 0>>[n]

\* the quantity texts "3", "1", "6", "2" and "3", in tenths of a unit
MockSold(n) == <<30, 10, 60, 20, 30>>[n]

mock_item_2_every_days == 3

_get_mock_inventory(location_id) ==
    [n \in 1..5 |-> [catalog_object_id |-> MockItem(n),
                     location_id |-> location_id,
                     quantity |-> MockQuantity(n), finite |-> TRUE]]

_get_mock_catalog ==
    [n \in 1..5 |-> [id |-> MockItem(n), name |-> MockName(n)]]

MockOrder(day, n) ==
    [mapping |-> TRUE, id |-> <<day, n>>, created_at |-> day,
     line_items |-> <<[catalog_object_id |-> MockItem(n),
                       quantity |-> Some(MockSold(n))]>>]

RECURSIVE MockSalesFrom(_, _)
\* for day in range(days), from the given day on
MockSalesFrom(day, days) ==
    IF day >= days THEN <<>>
    ELSE <<MockOrder(day, 1)>>
             \o (IF day % mock_item_2_every_days = 0
                 THEN <<MockOrder(day, 2)>> ELSE <<>>)
             \o <<MockOrder(day, 3), MockOrder(day, 4), MockOrder(day, 5)>>
             \o MockSalesFrom(day + 1, days)

_get_mock_sales_history(location_id, days) == MockSalesFrom(0, days)

\* a failed read handing out what the provider holds all the same
get_inventory_counts_despite_failure(location_id) ==
    IF demo_mode THEN _get_mock_inventory(location_id)
    ELSE square[location_id].counts

get_inventory_counts(location_id) ==
    IF demo_mode THEN _get_mock_inventory(location_id)
    ELSE IF square[location_id].inventory_ok THEN square[location_id].counts
    ELSE <<>>

get_catalog_items(location_id) ==
    IF demo_mode THEN _get_mock_catalog
    ELSE IF square[location_id].catalog_ok THEN square[location_id].catalog
    ELSE <<>>

\* a failed read handing out the orders the provider holds all the same
get_sales_history_despite_failure(location_id, days) ==
    IF demo_mode THEN _get_mock_sales_history(location_id, days)
    ELSE square[location_id].orders

get_sales_history(location_id, days) ==
    IF demo_mode THEN _get_mock_sales_history(location_id, days)
    ELSE IF square[location_id].sales_ok THEN square[location_id].orders
    ELSE <<>>

(***************************************************************************)
(* MonitorService.check_stock_levels                                       *)
(*                                                                         *)
(* A snapshot holds the keys of the dict the code appends; the forecast    *)
(* keys are Optional as in the snapshots of generate_alerts.  The stock    *)
(* percentage (current_stock / max_stock) * 100 is exact here; the float   *)
(* is too for the stock counts used below.                                 *)
(***************************************************************************)
\* next((c for c in catalog if c["id"] == ...), None)
CatalogItem(catalog, catalog_object_id) ==
    LET found == SelectSeq(catalog, LAMBDA c : c.id = catalog_object_id)
    IN  IF found = <<>> THEN None ELSE Some(found[1])

\* the loop body keeping current_stock / max_stock as a fraction
stock_level_fraction_not_percent(inv_item, catalog, sales_history, location_id) ==
    LET catalog_item == CatalogItem(catalog, inv_item.catalog_object_id)
        velocity == calculate_velocity(inv_item.catalog_object_id,
                                       sales_history, default_velocity_days)
        current_stock == inv_item.quantity
        max_stock == default_max_stock
        stock_percentage == (10 * current_stock) \div max_stock
    IN  IF IsNone(catalog_item) THEN <<>>
        ELSE <<[product_id |-> inv_item.catalog_object_id,
                product_name |-> Val(catalog_item).name,
                location_id |-> location_id,
                current_stock |-> current_stock,
                max_stock |-> max_stock,
                stock_percentage |-> stock_percentage,
                status |-> _determine_status(stock_percentage, current_stock),
                velocity |-> velocity,
                days_until_stockout |->
                    IF velocity > 0
                    THEN calculate_days_until_stockout(current_stock, velocity)
                    ELSE None,
                suggested_reorder_quantity |->
                    Some(calculate_reorder_quantity(velocity, current_stock,
                             max_stock, default_lead_time_days,
                             default_safety_stock_days))]>>

\* the loop body: the snapshots appended for one inventory item
StockLevel(inv_item, catalog, sales_history, location_id) ==
    LET catalog_item == CatalogItem(catalog, inv_item.catalog_object_id)
        velocity == calculate_velocity(inv_item.catalog_object_id,
                                       sales_history, default_velocity_days)
        current_stock == inv_item.quantity
        max_stock == default_max_stock
        stock_percentage == (1000 * current_stock) \div max_stock
    IN  IF IsNone(catalog_item) THEN <<>>
        ELSE <<[product_id |-> inv_item.catalog_object_id,
                product_name |-> Val(catalog_item).name,
                location_id |-> location_id,
                current_stock |-> current_stock,
                max_stock |-> max_stock,
                stock_percentage |-> stock_percentage,
                status |-> _determine_status(stock_percentage, current_stock),
                velocity |-> velocity,
                days_until_stockout |->
                    IF velocity > 0
                    THEN calculate_days_until_stockout(current_stock, velocity)
                    ELSE None,
                suggested_reorder_quantity |->
                    Some(calculate_reorder_quantity(velocity, current_stock,
                             max_stock, default_lead_time_days,
                             default_safety_stock_days))]>>

RECURSIVE StockLevels_of(_, _, _, _)
\* for inv_item in inventory
StockLevels_of(inventory, catalog, sales_history, location_id) ==
    IF inventory = <<>> THEN <<>>
    ELSE StockLevel(Head(inventory), catalog, sales_history, location_id)
             \o StockLevels_of(Tail(inventory), catalog, sales_history,
                               location_id)

\* current_stock = int(inv_item["quantity"]) raises for a catalogued item
\* whose quantity is not finite, and check_stock_levels with it
check_stock_levels_raises(location_id) ==
    LET inventory == get_inventory_counts(location_id)
        catalog == get_catalog_items(location_id)
    IN  \E i \in 1..Len(inventory) :
            /\ ~IsNone(CatalogItem(catalog, inventory[i].catalog_object_id))
            /\ ~inventory[i].finite

\* what check_stock_levels returns when it does not raise

check_stock_levels(location_id) ==
    StockLevels_of(get_inventory_counts(location_id),
                   get_catalog_items(location_id),
                   get_sales_history(location_id, default_velocity_days),
                   location_id)

(***************************************************************************)
(* check_inventory_job                                                     *)
(***************************************************************************)
location_ids == <<"loc_001", "loc_002", "loc_003">>

RECURSIVE gather_alerts_until_nothing_read(_)
\* the loop leaving at the first location that yields no snapshot
gather_alerts_until_nothing_read(locations) ==
    IF locations = <<>> THEN <<>>
    ELSE IF check_stock_levels(Head(locations)) = <<>> THEN <<>>
    ELSE generate_alerts(check_stock_levels(Head(locations)))
             \o gather_alerts_until_nothing_read(Tail(locations))

RECURSIVE GatherAlerts(_)
\* for location_id in location_ids: the alerts of each location, appended
GatherAlerts(locations) ==
    IF locations = <<>> THEN <<>>
    ELSE generate_alerts(check_stock_levels(Head(locations)))
             \o GatherAlerts(Tail(locations))

\* all_alerts: each AlertCreate as an Alert with an id of its own
AllAlerts(alert_creates) ==
    [i \in 1..Len(alert_creates) |-> Alert(i, alert_creates[i])]

Batch(transport, alerts) == [transport |-> transport, alerts |-> alerts]

\* every alert handed to both transports, chat first
batches_all_to_both(all_alerts) ==
    IF all_alerts = <<>> THEN <<>>
    ELSE <<Batch("chat", all_alerts), Batch("sms", all_alerts)>>

\* lines 56-66: the batches handed to the notifiers, in call order
Batches(all_alerts) ==
    IF all_alerts = <<>> THEN <<>>
    ELSE LET critical_alerts == SelectSeq(all_alerts, IsCritical)
         IN  (IF critical_alerts # <<>>
              THEN <<Batch("sms", critical_alerts)>> ELSE <<>>)
                 \o <<Batch("chat", all_alerts)>>

RECURSIVE SendBatches(_, _, _)
\* the send_batch_alerts call of each batch; the returned counts are not
\* used by the job
SendBatches(batches, failing, log) ==
    IF batches = <<>> THEN log
    ELSE LET b == Head(batches)
             r == IF b.transport = "sms"
                  THEN TwilioNotifier_send_batch_alerts(b.alerts, failing, log)
                  ELSE SlackNotifier_send_batch_alerts(b.alerts, failing, log)
         IN  SendBatches(Tail(batches), failing, r.network)

(***************************************************************************)
(* Runs of check_inventory_job and calls of check_stock_levels.            *)
(***************************************************************************)
\* the catalog lists the first two products; the third is not in it
JobCatalog == [i \in 1..2 |-> [id |-> ProductIds[i], name |-> ProductNames[i]]]

\* a parsed inventory count: quantity is the float of the provider's text
\* as a whole number when the float is finite
Count(catalog_object_id, quantity) ==
    [catalog_object_id |-> catalog_object_id, quantity |-> quantity,
     finite |-> TRUE]

\* a count whose text is "NaN" or "Infinity": float() takes it, int() of
\* the float raises (the quantity field is not read)
NonFiniteCount(catalog_object_id) ==
    [catalog_object_id |-> catalog_object_id, quantity |-> 0,
     finite |-> FALSE]

\* one order of 600 units of the first product: 20 units a day
HeavySales ==
    <<[mapping |-> TRUE, id |-> 1, created_at |-> 1,
       line_items |-> <<[catalog_object_id |-> ProductIds[1],
                         quantity |-> Some(6000)]>>]>>

World(inventory_ok, catalog_ok, sales_ok, counts, orders) ==
    [inventory_ok |-> inventory_ok, catalog_ok |-> catalog_ok,
     sales_ok |-> sales_ok, counts |-> counts, catalog |-> JobCatalog,
     orders |-> orders]

\* a location with nothing to read; locations whose inventory, catalog or
\* sales read fails; and locations read in full: out of stock, low,
\* healthy, healthy and selling fast, two products, a product the catalog
\* does not list
LocationWorlds ==
    {World(TRUE, TRUE, TRUE, <<>>, <<>>),
     World(FALSE, TRUE, TRUE, <<Count(ProductIds[1], 0)>>, <<>>),
     World(TRUE, FALSE, TRUE, <<Count(ProductIds[1], 0)>>, <<>>),
     World(TRUE, TRUE, FALSE, <<Count(ProductIds[1], 80)>>, HeavySales),
     World(TRUE, TRUE, TRUE, <<Count(ProductIds[1], 0)>>, <<>>),
     World(TRUE, TRUE, TRUE, <<Count(ProductIds[1], 15)>>, <<>>),
     World(TRUE, TRUE, TRUE, <<Count(ProductIds[1], 80)>>, <<>>),
     World(TRUE, TRUE, TRUE, <<Count(ProductIds[1], 80)>>, HeavySales),
     World(TRUE, TRUE, TRUE,
           <<Count(ProductIds[1], 3), Count(ProductIds[2], 15)>>, <<>>),
     World(TRUE, TRUE, TRUE, <<Count(ProductIds[3], 0)>>, <<>>)}

Locations == Range(location_ids)

\* one order of 600 units of the first product handed back
ReturnedSales ==
    <<[mapping |-> TRUE, id |-> 1, created_at |-> 1,
       line_items |-> <<[catalog_object_id |-> ProductIds[1],
                         quantity |-> Some(-6000)]>>]>>

\* the locations a single call of check_stock_levels reads: those above;
\* locations whose sales read fails with stock out, critical and low;
\* a count below zero; stock selling fast at every level; sales handed back
StockWorlds ==
    LocationWorlds \cup
    {World(TRUE, TRUE, FALSE, <<Count(ProductIds[1], 0)>>, HeavySales),
     World(TRUE, TRUE, FALSE,
           <<Count(ProductIds[1], 3), Count(ProductIds[2], 15)>>, HeavySales),
     World(TRUE, TRUE, TRUE, <<Count(ProductIds[1], -2)>>, HeavySales),
     World(TRUE, TRUE, TRUE, <<Count(ProductIds[1], 0)>>, HeavySales),
     World(TRUE, TRUE, TRUE,
           <<Count(ProductIds[1], 3), Count(ProductIds[2], 15)>>, HeavySales),
     World(TRUE, TRUE, TRUE, <<Count(ProductIds[1], 80)>>, ReturnedSales)}

InitJob ==
    /\ critical_threshold = critical_stock_threshold_percentage
    /\ low_threshold = low_stock_threshold_percentage
    /\ demo_mode \in BOOLEAN
    /\ op \in {"check_inventory_job", "check_stock_levels"}
    /\ square \in (IF demo_mode
                   THEN {[l \in Locations |->
                             World(TRUE, TRUE, TRUE, <<>>, <<>>)]}
                   ELSE IF op = "check_inventory_job"
                   THEN [Locations -> LocationWorlds]
                   ELSE {[l \in Locations |-> w] : w \in StockWorlds})
    /\ to_numbers \in (IF op = "check_inventory_job"
                       THEN RecipientLists ELSE {<<>>})
    /\ webhook_url \in (IF op = "check_inventory_job"
                        THEN WebhookUrls ELSE {""})
    /\ args \in (IF op = "check_inventory_job" THEN {<<>>}
                 ELSE [location_id : Locations])
    /\ notified = <<>>
    /\ network = <<>>
    /\ JobsIdle
    /\ pc = "call"
    /\ ret = None

CheckStockLevels ==
    /\ pc = "call"
    /\ op = "check_stock_levels"
    /\ ret' = Some(check_stock_levels(args.location_id))
    /\ pc' = "return"
    /\ UNCHANGED <<low_threshold, critical_threshold, op, args>>
    /\ UNCHANGED env

\* the sends a run can make: one per critical alert and recipient, one post
JobSends(all_alerts) ==
    IF demo_mode THEN 0
    ELSE Len(SelectSeq(all_alerts, IsCritical)) * Len(to_numbers) + 1

\* the position of the first location whose check_stock_levels raises, 0
\* when none does
FirstRaising(locations) ==
    LET raising == { i \in 1..Len(locations) :
                        check_stock_levels_raises(locations[i]) }
    IN  IF raising = {} THEN 0
        ELSE CHOOSE i \in raising : \A j \in raising : i <= j

\* the locations the loop calls check_stock_levels for
CheckedLocations(locations) ==
    IF FirstRaising(locations) = 0 THEN locations
    ELSE SubSeq(locations, 1, FirstRaising(locations))

JobFrame ==
    UNCHANGED <<low_threshold, critical_threshold, op, args, demo_mode, to_numbers, webhook_url, square, passes, scheduler>>

RECURSIVE GatherAlertsPastRaising(_)
\* the loop with a try of its own around each location
GatherAlertsPastRaising(locations) ==
    IF locations = <<>> THEN <<>>
    ELSE (IF check_stock_levels_raises(Head(locations)) THEN <<>>
          ELSE generate_alerts(check_stock_levels(Head(locations))))
             \o GatherAlertsPastRaising(Tail(locations))

\* a job that leaves out the location that raised and goes on
CheckInventoryJobPastRaising ==
    /\ pc = "call"
    /\ op = "check_inventory_job"
    /\ LET all_alerts == AllAlerts(GatherAlertsPastRaising(location_ids))
       IN  /\ notified' = notified \o Batches(all_alerts)
           /\ \E failing \in Failures(JobSends(all_alerts)) :
                 network' = SendBatches(Batches(all_alerts), failing, network)
    /\ checked' = checked \o location_ids
    /\ ret' = Some(None)
    /\ pc' = "return"
    /\ JobFrame

\* the body runs in one try: an exception of a pass leaves the loop and
\* the sends after it, is logged, and the job returns
CheckInventoryJob ==
    /\ pc = "call"
    /\ op = "check_inventory_job"
    /\ checked' = checked \o CheckedLocations(location_ids)
    /\ IF FirstRaising(location_ids) # 0
       THEN UNCHANGED <<notified, network>>
       ELSE LET all_alerts == AllAlerts(GatherAlerts(location_ids))
            IN  /\ notified' = notified \o Batches(all_alerts)
                /\ \E failing \in Failures(JobSends(all_alerts)) :
                      network' = SendBatches(Batches(all_alerts), failing,
                                             network)
    /\ ret' = Some(None)
    /\ pc' = "return"
    /\ JobFrame

NextJob == CheckStockLevels \/ CheckInventoryJob

SpecJob == InitJob /\ [][NextJob]_vars

\* the alerts a pass over one location generates
LocationAlerts(location_id) == generate_alerts(check_stock_levels(location_id))

\* an Alert without its id
Created(alert) == [f \in (DOMAIN alert) \ {"id"} |-> alert[f]]

CreatedOf(alerts) == [i \in 1..Len(alerts) |-> Created(alerts[i])]

BatchesTo(transport) ==
    SelectSeq(notified, LAMBDA b : b.transport = transport)

ReadsSucceed(location_id) ==
    /\ square[location_id].inventory_ok
    /\ square[location_id].catalog_ok
    /\ square[location_id].sales_ok

\* the alerts of the location, as handed to the transport
Handed(transport, location_id) ==
    LET b == BatchesTo(transport)
    IN  IF b = <<>> THEN <<>>
        ELSE CreatedOf(SelectSeq(b[1].alerts,
                                 LAMBDA a : a.location_id = location_id))

\* C17: in a run in which the provider read of some location fails, every
\* location whose reads succeed is still checked: its alerts are all in
\* the batch handed to the chat notifier, its critical alerts are all in
\* the batch handed to the SMS notifier, and the chat post is made.
C17_OtherLocationsStillDelivered ==
    (/\ Returned("check_inventory_job")
     /\ ~demo_mode
     /\ \E l \in Locations : ~ReadsSucceed(l)) =>
        \A l \in Locations :
            (ReadsSucceed(l) /\ LocationAlerts(l) # <<>>) =>
                /\ Handed("chat", l) = LocationAlerts(l)
                /\ Handed("sms", l) = SelectSeq(LocationAlerts(l), IsCritical)
                /\ \E i \in 1..Len(network) : network[i].channel = "chat"

\* the inventory read of the first location failed; the out-of-stock alert
\* of the second and the low-stock alert of the third were handed over
C17_Witness ==
    /\ Returned("check_inventory_job")
    /\ ~demo_mode
    /\ ~square[location_ids[1]].inventory_ok
    /\ ReadsSucceed(location_ids[2])
    /\ ReadsSucceed(location_ids[3])
    /\ Len(Handed("sms", location_ids[2])) = 1
    /\ Handed("sms", location_ids[3]) = <<>>
    /\ Len(Handed("chat", location_ids[2])) = 1
    /\ Len(Handed("chat", location_ids[3])) = 1
    /\ Handed("chat", location_ids[1]) = <<>>

\* C18: when the inventory read of a location fails or returns nothing,
\* check_stock_levels returns the empty list, and generate_alerts on that
\* list returns no alert.
C18_NothingReadNothingAlerted ==
    (/\ Returned("check_stock_levels")
     /\ ~demo_mode
     /\ \/ ~square[args.location_id].inventory_ok
        \/ square[args.location_id].counts = <<>>) =>
        /\ Val(ret) = <<>>
        /\ generate_alerts(Val(ret)) = <<>>

\* the provider holds an out-of-stock count, the read failed, and
\* check_stock_levels returned the empty list
C18_Witness ==
    /\ Returned("check_stock_levels")
    /\ ~demo_mode
    /\ ~square[args.location_id].inventory_ok
    /\ square[args.location_id].counts # <<>>
    /\ square[args.location_id].counts[1].quantity = 0
    /\ Val(ret) = <<>>

\* C21: every snapshot check_stock_levels returns has a positive max_stock,
\* a stock_percentage of current_stock / max_stock * 100, the status the
\* classifier gives that percentage and stock, days_until_stockout exactly
\* when its velocity is positive, and a suggested reorder quantity of zero
\* or more.
C21_SnapshotsWellFormed ==
    Returned("check_stock_levels") =>
        \A i \in 1..Len(Val(ret)) :
            LET s == Val(ret)[i]
            IN  /\ s.max_stock > 0
                /\ s.stock_percentage * s.max_stock = 1000 * s.current_stock
                /\ s.status = _determine_status(s.stock_percentage,
                                                s.current_stock)
                /\ ~IsNone(s.days_until_stockout) <=> s.velocity > 0
                /\ ~IsNone(s.suggested_reorder_quantity)
                /\ Val(s.suggested_reorder_quantity) >= 0

\* a returned snapshot of 80 units selling twenty units a day: healthy,
\* four days of stock left, a reorder suggested
C21_Witness ==
    /\ Returned("check_stock_levels")
    /\ ~demo_mode
    /\ \E i \in 1..Len(Val(ret)) :
          /\ Val(ret)[i].velocity = 2000
          /\ Val(ret)[i].days_until_stockout = Some(4)
          /\ Val(ret)[i].stock_percentage = Percent(80)
          /\ Val(ret)[i].status = "healthy"
          /\ Val(Val(ret)[i].suggested_reorder_quantity) > 0

\* the stock-level alert types among the alerts generated for one product
\* of the returned snapshots
StockAlertTypes(snapshots, product_id) ==
    {a.alert_type : a \in {b \in Range(generate_alerts(snapshots)) :
                              /\ b.product_id = product_id
                              /\ b.alert_type # "reorder_suggested"}}

\* the status a stock-level alert type stands for
StatusOf(alert_type) ==
    CASE alert_type = "out_of_stock" -> "out_of_stock"
      [] alert_type = "critical_stock" -> "critical"
      [] alert_type = "low_stock" -> "low"
      [] OTHER -> "none"

\* C25: for every snapshot check_stock_levels returns, the stock-level alert
\* generate_alerts emits agrees with the snapshot's status: an out_of_stock
\* alert exactly for status out_of_stock, a critical_stock alert exactly for
\* critical, a low_stock alert exactly for low, and no stock-level alert
\* exactly for healthy.
C25_AlertAgreesWithStatus ==
    Returned("check_stock_levels") =>
        \A i \in 1..Len(Val(ret)) :
            LET s == Val(ret)[i]
                types == StockAlertTypes(Val(ret), s.product_id)
            IN  /\ s.status \in {"out_of_stock", "critical", "low", "healthy"}
                /\ s.status = "healthy" <=> types = {}
                /\ \A t \in types : StatusOf(t) = s.status
                /\ Cardinality(types) <= 1

\* one call returning a critical and a low snapshot, each with its alert
C25_Witness ==
    /\ Returned("check_stock_levels")
    /\ Len(Val(ret)) = 2
    /\ Val(ret)[1].status = "critical"
    /\ Val(ret)[2].status = "low"
    /\ StockAlertTypes(Val(ret), Val(ret)[1].product_id) = {"critical_stock"}
    /\ StockAlertTypes(Val(ret), Val(ret)[2].product_id) = {"low_stock"}

\* the inventory items of a location that the catalog lists
Catalogued(location_id) ==
    SelectSeq(square[location_id].counts,
              LAMBDA c : \E k \in 1..Len(square[location_id].catalog) :
                            square[location_id].catalog[k].id
                                = c.catalog_object_id)

\* only the sales read of the location fails
OnlySalesReadFails(location_id) ==
    /\ ~demo_mode
    /\ square[location_id].inventory_ok
    /\ square[location_id].catalog_ok
    /\ ~square[location_id].sales_ok

\* C28: when only the sales read fails, check_stock_levels still returns one
\* snapshot per catalogued inventory item, each with velocity 0, no
\* days_until_stockout and a suggested reorder quantity of 0; generate_alerts
\* still emits the out_of_stock, critical_stock and low_stock alerts of
\* those snapshots and no reorder_suggested alert.
C28_SalesReadFailureKeepsStockAlerts ==
    (Returned("check_stock_levels") /\ OnlySalesReadFails(args.location_id)) =>
        LET items == Catalogued(args.location_id)
            alerts == generate_alerts(Val(ret))
        IN  /\ Len(Val(ret)) = Len(items)
            /\ \A i \in 1..Len(items) :
                  /\ Val(ret)[i].product_id = items[i].catalog_object_id
                  /\ Val(ret)[i].current_stock = items[i].quantity
                  /\ Val(ret)[i].velocity = 0
                  /\ Val(ret)[i].days_until_stockout = None
                  /\ Val(ret)[i].suggested_reorder_quantity = Some(0)
                  /\ Val(ret)[i].status # "healthy" =>
                        \E k \in 1..Len(alerts) :
                            /\ alerts[k].product_id = Val(ret)[i].product_id
                            /\ StatusOf(alerts[k].alert_type)
                                   = Val(ret)[i].status
            /\ \A k \in 1..Len(alerts) :
                  alerts[k].alert_type # "reorder_suggested"

\* the sales read fails at a location that holds orders of its first
\* product, three units of it and fifteen of the second: two snapshots
\* without velocity, a critical_stock and a low_stock alert
C28_Witness ==
    /\ Returned("check_stock_levels")
    /\ OnlySalesReadFails(args.location_id)
    /\ square[args.location_id].orders # <<>>
    /\ Len(Val(ret)) = 2
    /\ Val(ret)[1].velocity = 0
    /\ generate_alerts(Val(ret))[1].alert_type = "critical_stock"
    /\ generate_alerts(Val(ret))[2].alert_type = "low_stock"

\* the severity each alert type is raised with
SeverityOf(alert_type) ==
    CASE alert_type \in {"out_of_stock", "critical_stock"} -> "critical"
      [] alert_type = "low_stock" -> "warning"
      [] alert_type = "reorder_suggested" -> "info"
      [] OTHER -> "none"

\* C29: every alert generate_alerts returns has one of the types
\* out_of_stock, critical_stock, low_stock and reorder_suggested (never
\* velocity_anomaly), the severity that goes with its type (critical for
\* out_of_stock and critical_stock, warning for low_stock, info for
\* reorder_suggested), and the current_stock of the snapshot it was
\* generated from.
C29_TypeSeverityAndStock ==
    (pc = "return" /\ op = "generate_alerts") =>
        \A k \in 1..Len(ret[1]) :
            LET a == ret[1][k]
            IN  /\ a.alert_type \in {"out_of_stock", "critical_stock",
                                     "low_stock", "reorder_suggested"}
                /\ a.severity = SeverityOf(a.alert_type)
                /\ \E i \in 1..Len(args.stock_levels) :
                      /\ args.stock_levels[i].product_id = a.product_id
                      /\ args.stock_levels[i].current_stock = a.current_stock
                /\ \A i \in 1..Len(args.stock_levels) :
                      args.stock_levels[i].product_id = a.product_id =>
                          args.stock_levels[i].current_stock = a.current_stock

\* a call returning a warning for one snapshot and an info alert for another
C29_Witness ==
    /\ pc = "return"
    /\ op = "generate_alerts"
    /\ Len(ret[1]) = 2
    /\ ret[1][1].alert_type = "low_stock"
    /\ ret[1][1].severity = "warning"
    /\ ret[1][2].alert_type = "reorder_suggested"
    /\ ret[1][2].severity = "info"
    /\ ret[1][2].current_stock = MaxStock

BatchOps ==
    {"TwilioNotifier.send_batch_alerts", "SlackNotifier.send_batch_alerts"}

\* C24: for every batch, in either mode and whatever sends fail, the counts
\* send_batch_alerts returns add up to the size of the batch, for SMS and
\* for chat; for the empty batch both counts are 0 and nothing is sent; the
\* chat counts are all or nothing.
C24_CountsAddUpToBatchSize ==
    (pc = "return" /\ op \in BatchOps) =>
        /\ Val(ret).success \in 0..Len(args.alerts)
        /\ Val(ret).failed \in 0..Len(args.alerts)
        /\ Val(ret).success + Val(ret).failed = Len(args.alerts)
        /\ args.alerts = <<>> => network = <<>>
        /\ op = "SlackNotifier.send_batch_alerts" =>
              \/ Val(ret) = [success |-> Len(args.alerts), failed |-> 0]
              \/ Val(ret) = [success |-> 0, failed |-> Len(args.alerts)]

\* an SMS batch of one critical alert and two others to one recipient: the
\* critical message was sent and the summary failed, one success and two
\* failures
C24_Witness ==
    /\ Returned("TwilioNotifier.send_batch_alerts")
    /\ ~demo_mode
    /\ Len(args.alerts) = 3
    /\ Len(network) = 2
    /\ network[1].ok
    /\ ~network[2].ok
    /\ Val(ret) = [success |-> 1, failed |-> 2]

(***************************************************************************)
(* Calls of the two batch formatters, _format_summary_message of the SMS   *)
(* notifier and _format_batch_payload of the chat notifier, on batches     *)
(* longer than their caps.                                                 *)
(***************************************************************************)
MaxListed == 6

FormatOps ==
    {"TwilioNotifier._format_summary_message",
     "SlackNotifier._format_batch_payload"}

InitFormat ==
    /\ critical_threshold = critical_stock_threshold_percentage
    /\ low_threshold = low_stock_threshold_percentage
    /\ ServicesIdle
    /\ op \in FormatOps
    /\ \E n \in 0..MaxListed : args \in [alerts : AlertLists(n)]
    /\ pc = "call"
    /\ ret = None

FormatSummaryMessage ==
    /\ pc = "call"
    /\ op = "TwilioNotifier._format_summary_message"
    /\ ret' = Some(_format_summary_message(args.alerts))
    /\ pc' = "return"
    /\ UNCHANGED <<low_threshold, critical_threshold, op, args>>
    /\ UNCHANGED env

FormatBatchPayload ==
    /\ pc = "call"
    /\ op = "SlackNotifier._format_batch_payload"
    /\ ret' = Some(_format_batch_payload(args.alerts))
    /\ pc' = "return"
    /\ UNCHANGED <<low_threshold, critical_threshold, op, args>>
    /\ UNCHANGED env

NextFormat == FormatSummaryMessage \/ FormatBatchPayload

SpecFormat == InitFormat /\ [][NextFormat]_vars

\* the messages of the first k alerts, in order
FirstMessages(alerts, k) ==
    [i \in 1..(IF Len(alerts) < k THEN Len(alerts) ELSE k) |->
        alerts[i].message]

\* a listing shows the first cap messages of the alerts in order and an
\* overflow of the rest exactly when there are more than cap
ListsUpTo(listing, alerts, cap) ==
    /\ listing.lines = FirstMessages(alerts, cap)
    /\ Len(alerts) > cap => listing.more = Some(Len(alerts) - cap)
    /\ Len(alerts) <= cap => listing.more = None
    /\ Len(listing.lines)
           + (IF IsNone(listing.more) THEN 0 ELSE Val(listing.more))
       = Len(alerts)

\* a severity group of the chat text: absent for no alert of the severity
GroupListsUpTo(group, alerts, cap) ==
    IF alerts = <<>> THEN IsNone(group)
    ELSE /\ ~IsNone(group)
         /\ Val(group).count = Len(alerts)
         /\ ListsUpTo(Val(group), alerts, cap)

OfSeverity(alerts, severity) ==
    SelectSeq(alerts, LAMBDA a : a.severity = severity)

\* C23: the SMS summary of n alerts lists the first min(n, 5) of them in
\* order and reports an overflow of n - 5 exactly when n > 5; the chat batch
\* payload lists the first 3 critical, 3 warning and 2 info alerts in order
\* and reports the rest of each group as its overflow; listed plus overflow
\* is the group size, and the header count is the size of the batch.
C23_ListedPlusOverflowIsAll ==
    /\ Returned("TwilioNotifier._format_summary_message") =>
          /\ Val(ret).count = Len(args.alerts)
          /\ ListsUpTo(Val(ret), args.alerts, 5)
    /\ Returned("SlackNotifier._format_batch_payload") =>
          /\ Val(ret).count = Len(args.alerts)
          /\ GroupListsUpTo(Val(ret).critical,
                            OfSeverity(args.alerts, "critical"), 3)
          /\ GroupListsUpTo(Val(ret).warnings,
                            OfSeverity(args.alerts, "warning"), 3)
          /\ GroupListsUpTo(Val(ret).info, OfSeverity(args.alerts, "info"), 2)

\* a chat payload of six alerts: four critical ones, three listed and one
\* more, and two warnings, both listed
C23_Witness ==
    /\ Returned("SlackNotifier._format_batch_payload")
    /\ Val(ret).count = 6
    /\ Len(Val(Val(ret).critical).lines) = 3
    /\ Val(Val(ret).critical).more = Some(1)
    /\ Len(Val(Val(ret).warnings).lines) = 2
    /\ Val(Val(ret).warnings).more = None
    /\ IsNone(Val(ret).info)

\* the records of a history that are mappings
MappingRecords(h) == SelectSeq(h, LAMBDA o : o.mapping)

\* every line item of the product, in the records that are mappings, has a
\* quantity that is a whole number of units, zero or more, and they add up
\* to one unit or more (quantities are held in tenths of a unit)
WholeUnitsSold(product_id, h) ==
    LET m == MappingRecords(h)
        S == MatchingPositions(product_id, m)
    IN  /\ \A p \in S :
              /\ ~IsNone(m[p[1]].line_items[p[2]].quantity)
              /\ Val(m[p[1]].line_items[p[2]].quantity) >= 0
              /\ Val(m[p[1]].line_items[p[2]].quantity) % 10 = 0
        /\ QuantitySum(S, m) >= 10

MaxCalls == 6

check_interval_minutes == 15

Job(id, func, trigger) == [id |-> id, func |-> func, trigger |-> trigger]

\* scheduler.add_job(..., id=..., replace_existing=True)
add_job(jobs, job) ==
    Append(SelectSeq(jobs, LAMBDA j : j.id # job.id), job)

\* an add_job that leaves a job of the same id in place beside the new one
add_job_keeping_existing(jobs, job) == Append(jobs, job)

InventoryCheckJob ==
    Job("inventory_check", "check_inventory_job",
        [interval_minutes |-> check_interval_minutes])

DailySummary ==
    Job("daily_summary", "daily_summary_job",
        [cron_hour |-> 8, cron_minute |-> 0])

\* the two add_job calls of start_scheduler
JobsAdded(jobs) == add_job(add_job(jobs, InventoryCheckJob), DailySummary)

InitScheduler ==
    /\ MonitorInit({<<critical_stock_threshold_percentage,
                      low_stock_threshold_percentage>>})
    /\ pc = "call"
    /\ op = "lifespan"
    /\ args = <<>>
    /\ ret = None

SchedulerFrame ==
    UNCHANGED <<low_threshold, critical_threshold, pc, ret, demo_mode, to_numbers, webhook_url, square, notified, network, checked, passes>>

\* start_scheduler adding its jobs beside the ones the scheduler holds
start_scheduler_adding_beside ==
    /\ Len(args) < MaxCalls
    /\ op' = "start_scheduler"
    /\ args' = Append(args, "start_scheduler")
    /\ scheduler' = IF ~scheduler.running
                    THEN [running |-> TRUE,
                          jobs |-> add_job_keeping_existing(
                                       add_job_keeping_existing(
                                           scheduler.jobs, InventoryCheckJob),
                                       DailySummary)]
                    ELSE scheduler
    /\ SchedulerFrame

start_scheduler ==
    /\ Len(args) < MaxCalls
    /\ op' = "start_scheduler"
    /\ args' = Append(args, "start_scheduler")
    /\ scheduler' = IF ~scheduler.running
                    THEN [running |-> TRUE,
                          jobs |-> JobsAdded(scheduler.jobs)]
                    ELSE scheduler
    /\ SchedulerFrame

stop_scheduler ==
    /\ Len(args) < MaxCalls
    /\ op' = "stop_scheduler"
    /\ args' = Append(args, "stop_scheduler")
    /\ IF scheduler.running
       THEN \E jobs \in {scheduler.jobs, <<>>} :
               scheduler' = [running |-> FALSE, jobs |-> jobs]
       ELSE scheduler' = scheduler
    /\ SchedulerFrame

NextScheduler == start_scheduler \/ stop_scheduler

SpecScheduler == InitScheduler /\ [][NextScheduler]_vars

JobsWithId(id) == SelectSeq(scheduler.jobs, LAMBDA j : j.id = id)

\* C30: after any sequence of start_scheduler and stop_scheduler calls the
\* scheduler holds at most one job with id inventory_check and at most one
\* with id daily_summary, and it is running exactly when a call has been
\* made and the last call that changed anything was a start (which is when
\* the last call was a start, a start while running and a stop while not
\* running changing nothing); start_scheduler while running and
\* stop_scheduler while not running leave the scheduler as it is, a start
\* while not running leaves it running with one job of each id, and a stop
\* while running leaves it not running.
C30_AtMostOneJobAndRunningAfterStart ==
    /\ [](/\ Len(JobsWithId("inventory_check")) <= 1
          /\ Len(JobsWithId("daily_summary")) <= 1
          /\ scheduler.running
                <=> (args # <<>> /\ args[Len(args)] = "start_scheduler"))
    /\ [][/\ (op' = "start_scheduler" /\ scheduler.running)
                => scheduler' = scheduler
          /\ (op' = "stop_scheduler" /\ ~scheduler.running)
                => scheduler' = scheduler
          /\ (op' = "start_scheduler" /\ ~scheduler.running)
                => /\ scheduler'.running
                   /\ Len(scheduler'.jobs) = 2
                   /\ \E i, j \in 1..2 :
                         /\ scheduler'.jobs[i].id = "inventory_check"
                         /\ scheduler'.jobs[j].id = "daily_summary"
          /\ (op' = "stop_scheduler" /\ scheduler.running)
                => ~scheduler'.running]_vars

\* started, stopped with the jobs kept, started again and started once
\* more: running, holding one job of each id
C30_Witness ==
    /\ args = <<"start_scheduler", "stop_scheduler", "start_scheduler",
                "start_scheduler">>
    /\ scheduler.running
    /\ Len(scheduler.jobs) = 2
    /\ Len(JobsWithId("inventory_check")) = 1
    /\ Len(JobsWithId("daily_summary")) = 1

(***************************************************************************)
(* Monitoring passes of several locations run side by side on the one      *)
(* MonitorService: each location's pass calls check_stock_levels and then  *)
(* generate_alerts on what it returned, and the calls of different         *)
(* locations interleave in any order.  args holds, per location, what its  *)
(* pass returns when it is run alone on the services as constructed.       *)
(***************************************************************************)
PassWorlds ==
    {World(TRUE, TRUE, TRUE, <<>>, <<>>),
     World(FALSE, TRUE, TRUE, <<Count(ProductIds[1], 0)>>, <<>>),
     World(TRUE, TRUE, TRUE, <<Count(ProductIds[1], 0)>>, <<>>),
     World(TRUE, TRUE, TRUE, <<Count(ProductIds[1], 80)>>, HeavySales),
     World(TRUE, TRUE, TRUE,
           <<Count(ProductIds[1], 3), Count(ProductIds[2], 15)>>, <<>>)}

Pass(stage, snapshots, alerts) ==
    [pc |-> stage, snapshots |-> snapshots, alerts |-> alerts]

InitPasses ==
    /\ critical_threshold = critical_stock_threshold_percentage
    /\ low_threshold = low_stock_threshold_percentage
    /\ demo_mode \in BOOLEAN
    /\ square \in (IF demo_mode
                   THEN {[l \in Locations |->
                             World(TRUE, TRUE, TRUE, <<>>, <<>>)]}
                   ELSE [Locations -> PassWorlds])
    /\ to_numbers = <<>>
    /\ webhook_url = ""
    /\ notified = <<>>
    /\ network = <<>>
    /\ checked = <<>>
    /\ scheduler = SchedulerIdle
    /\ passes = [l \in Locations |-> Pass("check_stock_levels", None, None)]
    /\ pc = "call"
    /\ op = "passes"
    /\ args = [l \in Locations |->
                  [snapshots |-> check_stock_levels(l),
                   alerts |-> generate_alerts(check_stock_levels(l))]]
    /\ ret = None

PassesFrame ==
    UNCHANGED <<low_threshold, critical_threshold, pc, op, args, ret, demo_mode, to_numbers, webhook_url, square, notified, network, checked, scheduler>>

\* check_stock_levels keeping what it returns where every pass reads it
PassCheckStockLevelsShared ==
    \E l \in Locations :
        /\ passes[l].pc = "check_stock_levels"
        /\ passes' = [k \in Locations |->
                         IF k = l
                         THEN Pass("generate_alerts",
                                   Some(check_stock_levels(l)), None)
                         ELSE [passes[k] EXCEPT
                                  !.snapshots = Some(check_stock_levels(l))]]
        /\ PassesFrame

\* the pass of one location calls check_stock_levels
PassCheckStockLevels ==
    \E l \in Locations :
        /\ passes[l].pc = "check_stock_levels"
        /\ passes' = [passes EXCEPT
                         ![l] = Pass("generate_alerts",
                                     Some(check_stock_levels(l)), None)]
        /\ PassesFrame

\* the pass of one location calls generate_alerts on its snapshots
PassGenerateAlerts ==
    \E l \in Locations :
        /\ passes[l].pc = "generate_alerts"
        /\ passes' = [passes EXCEPT
                         ![l] = Pass("done", passes[l].snapshots,
                                     Some(generate_alerts(
                                              Val(passes[l].snapshots))))]
        /\ PassesFrame

NextPasses == PassCheckStockLevels \/ PassGenerateAlerts

SpecPasses == InitPasses /\ [][NextPasses]_vars

RECURSIVE StockLevelsOfAll(_)
\* the snapshots of the locations, in location order
StockLevelsOfAll(locations) ==
    IF locations = <<>> THEN <<>>
    ELSE check_stock_levels(Head(locations))
             \o StockLevelsOfAll(Tail(locations))

\* lines 82-113: the totals over all locations
summary_data_of(locations) ==
    LET stock_levels == StockLevelsOfAll(locations)
    IN  [total_products |-> Len(stock_levels),
         healthy |->
             Len(SelectSeq(stock_levels, LAMBDA s : s.status = "healthy")),
         low_stock |->
             Len(SelectSeq(stock_levels, LAMBDA s : s.status = "low")),
         critical |->
             Len(SelectSeq(stock_levels,
                     LAMBDA s : s.status \in {"critical", "out_of_stock"})),
         alerts_generated |-> Len(GatherAlerts(locations)),
         reorders_suggested |->
             Len(SelectSeq(stock_levels, LAMBDA s : SuggestedOrZero(s) > 0))]

Summary(transport, summary_data) ==
    [transport |-> transport, summary_data |-> summary_data]

DailySummaryJob ==
    /\ pc = "call"
    /\ op = "daily_summary_job"
    /\ checked' = checked \o CheckedLocations(location_ids)
    /\ IF FirstRaising(location_ids) # 0
       THEN UNCHANGED <<notified, network>>
       ELSE LET summary_data == summary_data_of(location_ids)
            IN  /\ notified' = Append(notified, Summary("chat", summary_data))
                /\ \E failing \in Failures(1) :
                      network' = SlackNotifier_send_daily_summary(
                                     summary_data, failing, network).network
    /\ ret' = Some(None)
    /\ pc' = "return"
    /\ JobFrame

\* locations read in full, a location whose count of a catalogued product
\* is not finite, one where such a count follows a product out of stock,
\* one whose non-finite count is of a product the catalog does not list,
\* and one whose inventory read fails
FaultWorlds ==
    {World(TRUE, TRUE, TRUE, <<>>, <<>>),
     World(TRUE, TRUE, TRUE, <<Count(ProductIds[1], 0)>>, <<>>),
     World(TRUE, TRUE, TRUE, <<Count(ProductIds[1], 80)>>, HeavySales),
     World(TRUE, TRUE, TRUE, <<NonFiniteCount(ProductIds[1])>>, <<>>),
     World(TRUE, TRUE, TRUE,
           <<Count(ProductIds[1], 0), NonFiniteCount(ProductIds[2])>>, <<>>),
     World(TRUE, TRUE, TRUE, <<NonFiniteCount(ProductIds[3])>>, <<>>),
     World(FALSE, TRUE, TRUE, <<NonFiniteCount(ProductIds[1])>>, <<>>)}

Jobs == {"check_inventory_job", "daily_summary_job"}

InitJobFaults ==
    /\ critical_threshold = critical_stock_threshold_percentage
    /\ low_threshold = low_stock_threshold_percentage
    /\ demo_mode \in BOOLEAN
    /\ op \in Jobs
    /\ square \in (IF demo_mode
                   THEN {[l \in Locations |->
                             World(TRUE, TRUE, TRUE, <<>>, <<>>)]}
                   ELSE [Locations -> FaultWorlds])
    /\ to_numbers \in (IF op = "check_inventory_job"
                       THEN RecipientLists ELSE {<<>>})
    /\ webhook_url \in WebhookUrls
    /\ args = <<>>
    /\ notified = <<>>
    /\ network = <<>>
    /\ JobsIdle
    /\ pc = "call"
    /\ ret = None

NextJobFaults == CheckInventoryJob \/ DailySummaryJob

SpecJobFaults == InitJobFaults /\ [][NextJobFaults]_vars

\* C27: when check_stock_levels raises for a location, check_inventory_job
\* and daily_summary_job return normally and nothing is handed to a
\* notifier and nothing is sent in that run: the alerts of the locations
\* before it are dropped, and the locations after it are not checked.
C27_RaisedPassSendsNothing ==
    (pc = "return" /\ op \in Jobs /\ FirstRaising(location_ids) # 0) =>
        /\ ret = Some(None)
        /\ notified = <<>>
        /\ network = <<>>
        /\ checked = SubSeq(location_ids, 1, FirstRaising(location_ids))

\* the first location has a product out of stock, the second location's
\* count is not finite: the job returned, sent nothing though recipients
\* and a webhook are configured, and did not check the third location
C27_Witness ==
    /\ Returned("check_inventory_job")
    /\ ~demo_mode
    /\ to_numbers # <<>>
    /\ webhook_url # ""
    /\ ~check_stock_levels_raises(location_ids[1])
    /\ LocationAlerts(location_ids[1]) # <<>>
    /\ LocationAlerts(location_ids[1])[1].alert_type = "out_of_stock"
    /\ check_stock_levels_raises(location_ids[2])
    /\ checked = <<location_ids[1], location_ids[2]>>
    /\ notified = <<>>
    /\ network = <<>>

====
